---------------------------- MODULE Spec2Model ----------------------------
(***************************************************************************)
(* somalia-ex-rate: the rate service (getRates over the two-tier cache),   *)
(* and the provider manager (ordered failover with retry, backoff and a    *)
(* per-attempt timeout).                                                   *)
(*                                                                         *)
(* Every await of the TypeScript source is a separate step: what runs      *)
(* between two awaits is one atomic action (single-threaded event loop).   *)
(***************************************************************************)
EXTENDS Integers, Sequences, FiniteSets, TLC

(* ------------------------------ bounds -------------------------------- *)
NumCalls == 2          \* getRates calls that may run (and overlap)
MaxTime == 2           \* the clock runs 0..MaxTime
MaxTtl == 2            \* ttlMs option ranges over 1..MaxTtl
MaxFallbacks == 1      \* length of the manager's fallback list
MaxRetriesBound == 3   \* maxRetries ranges over 0..MaxRetriesBound
MaxTimeouts == 2       \* attempts of one fetchRates run that may time out
MaxOtherWrites == 1    \* cache files written by other processes
MantissaBits == 10     \* significant bits a number keeps (a double keeps 53)
NumHistCalls == 2      \* getHistoricalRates calls that may run (and overlap)
FirstDay == 100        \* the day the program starts, in days since some epoch
MaxDays == 1           \* days that may pass while it runs
MaxSpan == 2           \* a getRateHistory range spans up to MaxSpan + 1 days
MaxAdds == 2           \* addFallbackProvider calls that may be made
MaxSockets == 7        \* WebSockets a RateStreamClient may create
MaxConnectCalls == 2   \* connect() calls made by the client's user
NumConfigs == 2        \* ConfigManager instances
NumAlertCalls == 2     \* AlertManager calls that may run (and overlap)

Calls == 1..NumCalls
Times == 0..MaxTime
Providers == {"P1", "P2"}

(* ------------------------- values and tables -------------------------- *)
\* data/seed.json, the bundled table
Seed == "seed"
\* what provider p's fetchRatesSOS resolves to
TableOf(p) == IF p = "P1" THEN "T1" ELSE "T2"
Tables == {Seed, "Told"} \cup {TableOf(p) : p \in Providers}
\* a property read off a value that has no such property
Undefined == "undefined"
\* index.ts: cached.at of a value with no numeric `at` (Date.now() - undefined is NaN)
NoAt == -1

\* A JavaScript value held in `cached`: null (or any falsy value), or a truthy
\* value with the fields getRates reads off it.
NullVal == [kind |-> "null", at |-> NoAt, rates |-> Undefined]
Obj(a, r) == [kind |-> "object", at |-> a, rates |-> r]
Cached == {Obj(t, r) : t \in Times, r \in Tables}
Truthy(v) == v.kind = "object"

\* The durable file: missing, unreadable, text JSON.parse rejects, or JSON text.
FileOf(state, v) == [state |-> state, val |-> v]
NoFile == FileOf("missing", NullVal)
Truncated == FileOf("unparsable", NullVal)
\* tryWriteJSON's JSON.stringify(data, null, 2)
Stringify(v) == FileOf("json", v)
\* A text written over a longer text that another writer put in the file after
\* this writer's fs.writeFile had opened (and truncated) it: the new text followed
\* by the tail of the other, which JSON.parse rejects.
Overwritten == FileOf("unparsable", NullVal)
\* files found on disk when the program starts
InitialFiles ==
  { NoFile, FileOf("unreadable", NullVal), Truncated,
    Stringify(Obj(NoAt, Undefined)),    \* the text `{}`
    Stringify(Obj(0, Undefined)),       \* the text `{"at": 0}`
    Stringify(Obj(0, "Told")) }         \* a snapshot captured at time 0

VARIABLES
  now,           \* Date.now()
  memoryCache,   \* cache.ts: let memoryCache
  disk,          \* the file at persistPath
  pc,            \* per getRates call: where it is suspended
  opts,          \* per call: its GetRateOptions
  cached,        \* per call: const cached
  snap,          \* per call: const c (the snapshot built from the fetch)
  result,        \* per call: the value getRates resolved to ("none" before)
  provCalls,     \* per call: provider.fetchRatesSOS() invocations
  writes,        \* per call: its cache writes in order: "mem", then "open" and
                 \* "data" (the file was truncated, the text written) or "failed"
  fetchOutcome,  \* per call: "none" | "ok" | "error"
  doneBefore,    \* per call: the calls that had returned when it started
  callsTo,       \* per provider: fetchRatesSOS invocations by getRates
  failsOf,       \* per provider: rejected fetchRatesSOS calls of getRates
  otherWrites,   \* cache files written at persistPath by other processes
  m_primary,     \* ProviderManager.config.primary
  m_fallbacks,   \* ProviderManager.config.fallbacks
  m_maxRetries,  \* ProviderManager.config.maxRetries
  m_pc,          \* fetchRates: "idle" | "attempting" | "backoff" | "success" | "failed"
  m_providers,   \* fetchRates: const providers
  m_idx,         \* fetchRates: position of `provider` in providers
  m_attempt,     \* fetchRates: attempt
  m_lastError,   \* fetchRates: lastError
  m_outcome,     \* fetchRates: the table returned or the error thrown
  m_delay,       \* fetchRates: the backoff delay being waited, ms
  m_abandoned,   \* provider calls whose timer fired and that are still in flight
  m_late,        \* responses of abandoned calls that arrived
  m_timer,       \* fetchWithTimeout: the armed timeout timers, by attempt
  m_log,         \* fetchRates: what happened, in order
  cv_args,       \* per call: amount, from, to of the convert that made it
  cv_result,     \* per call: what that convert resolved to ("none" before)
  cv_same,       \* the last convert with from === to: its arguments and result
  m_capable,     \* the providers that define fetchHistoricalRates
  h_today,       \* the calendar day of new Date()
  h_file,        \* the file at HistoricalRateService.cachePath
  h_call,        \* per getHistoricalRates call: where it is and its locals
  s_tz,          \* the time zone of the process
  s_scan,        \* getRateHistory: where it is and its locals
  m_priority,    \* per provider: its `priority` (NoPriority: it has none)
  v_call,        \* getVolatility: where it is, its period and its result
  g_target,      \* per call: target of the getRate that made it ("none": none did)
  g_result,      \* per call: what that getRate resolved to (NoNum before)
  r_provider,    \* the built-in provider whose fetchRatesSOS is followed
  r_response,    \* the HTTP response it is given
  r_result,      \* what its fetchRatesSOS settled with ("none" before)
  w_badUrl,      \* RateStreamClient: whether `new WebSocket(url)` throws
  w_sock,        \* per WebSocket created: its state ("none": not created)
  w_ws,          \* this.ws (NoSocket: undefined)
  w_attempts,    \* this.reconnectAttempts
  w_timers,      \* the delays of the pending reconnect timers, as set
  w_maxed,       \* times 'max-reconnect-attempts' was emitted
  w_calls,       \* connect() calls made by the user
  w_connects,    \* connect() runs, the user's and the timers'
  w_disc,        \* disconnect() was called, and connect() not since
  k_default,     \* the objects DEFAULT_CONFIG refers to
  k_config,      \* per ConfigManager: this.config
  a_file,        \* the file at AlertManager.alertsPath
  a_call         \* per AlertManager call: where it is and its locals

ratesVars == <<now, memoryCache, disk, pc, opts, cached, snap, result,
               provCalls, writes, fetchOutcome, doneBefore, callsTo, failsOf,
               otherWrites>>
cfgVars == <<m_primary, m_fallbacks, m_maxRetries>>
runVars == <<m_pc, m_providers, m_idx, m_attempt, m_lastError, m_outcome,
             m_delay, m_abandoned, m_late, m_timer, m_log>>
mgrVars == <<cfgVars, runVars>>
cvVars == <<cv_args, cv_result, cv_same>>
histVars == <<m_capable, h_today, h_file, h_call>>
scanVars == <<s_tz, s_scan>>
descVars == <<m_priority>>
volVars == <<v_call>>
rateVars == <<g_target, g_result>>
respVars == <<r_provider, r_response, r_result>>
wsVars == <<w_badUrl, w_sock, w_ws, w_attempts, w_timers, w_maxed, w_calls,
            w_connects, w_disc>>
confVars == <<k_default, k_config>>
alertVars == <<a_file, a_call>>
laterVars == <<wsVars, confVars, alertVars>>
moreVars == <<scanVars, descVars, volVars, rateVars, respVars, laterVars>>
vars == <<ratesVars, cfgVars, runVars, cvVars, histVars, moreVars>>

(* ------------------------------ cache.ts ------------------------------ *)
\* an in-process tier that forgets what it was given
getMemoryCacheForgetful == [kind |-> "null", at |-> -1, rates |-> "undefined"]

getMemoryCache == memoryCache
setMemoryCache(c) == memoryCache' = c

(* ------------------------------ utils.ts ------------------------------ *)
\* readFile fails on a missing or unreadable file, JSON.parse on bad text; both
\* are caught and give null. Whatever JSON.parse accepts is returned as is.
tryReadJSON(file) == IF file.state = "json" THEN file.val ELSE NullVal

(* ------------------------------ index.ts ------------------------------ *)
OptionSets == [ttlMs : 1..MaxTtl, offline : BOOLEAN, persist : BOOLEAN,
               provider : Providers]
DefaultOpts == [ttlMs |-> 1, offline |-> FALSE, persist |-> TRUE, provider |-> "P1"]

\* the freshness test with <= for <: an age equal to ttl counts as fresh
IsFreshInclusive(v, t, ttl) == v.kind = "object" /\ v.at # NoAt /\ t - v.at <= ttl

\* const fresh = cached && (Date.now() - cached.at) < ttlMs
IsFresh(v, t, ttl) == Truthy(v) /\ v.at # NoAt /\ t - v.at < ttl

\* `if (cached) return cached.rates; return seed`
Fallback(v) == IF Truthy(v) THEN v.rates ELSE Seed

Return(c, v) == /\ result' = [result EXCEPT ![c] = v]
                /\ pc' = [pc EXCEPT ![c] = "done"]

\* readCache consulting the durable file first whenever a path is configured
GetRatesFileFirst(c, o) ==
  /\ pc[c] = "idle"
  /\ IF c = 1 THEN TRUE ELSE pc[c - 1] # "idle"
  /\ opts' = [opts EXCEPT ![c] = o]
  /\ doneBefore' = [doneBefore EXCEPT ![c] = {d \in Calls : pc[d] = "done"}]
  /\ IF o.persist
       THEN /\ pc' = [pc EXCEPT ![c] = "readFile"]
            /\ UNCHANGED cached
       ELSE /\ cached' = [cached EXCEPT ![c] = memoryCache]
            /\ pc' = [pc EXCEPT ![c] = "resume"]
  /\ UNCHANGED <<now, memoryCache, disk, snap, result, provCalls,
                 writes, fetchOutcome, callsTo, failsOf, otherWrites, mgrVars>>

\* getRates up to `await readCache(persistPath)`; readCache up to its first await
GetRates(c, o) ==
  /\ pc[c] = "idle"
  /\ IF c = 1 THEN TRUE ELSE pc[c - 1] # "idle"
  /\ opts' = [opts EXCEPT ![c] = o]
  /\ doneBefore' = [doneBefore EXCEPT ![c] = {d \in Calls : pc[d] = "done"}]
  /\ IF Truthy(getMemoryCache)
       THEN /\ cached' = [cached EXCEPT ![c] = getMemoryCache]
            /\ pc' = [pc EXCEPT ![c] = "resume"]
       ELSE IF o.persist
         THEN /\ pc' = [pc EXCEPT ![c] = "readFile"]
              /\ UNCHANGED cached
         ELSE /\ cached' = [cached EXCEPT ![c] = NullVal]
              /\ pc' = [pc EXCEPT ![c] = "resume"]
  /\ UNCHANGED <<now, memoryCache, disk, snap, result, provCalls,
                 writes, fetchOutcome, callsTo, failsOf, otherWrites, mgrVars>>

\* tryReadJSON's readFile settles
ReadFileDone(c) ==
  /\ pc[c] = "readFile"
  /\ cached' = [cached EXCEPT ![c] = tryReadJSON(disk)]
  /\ pc' = [pc EXCEPT ![c] = "resume"]
  /\ UNCHANGED <<now, memoryCache, disk, opts, snap, result, provCalls,
                 writes, fetchOutcome, doneBefore, callsTo, failsOf, otherWrites, mgrVars, cvVars, histVars, moreVars>>

\* getRates from the freshness test to `await provider.fetchRatesSOS()`
Resume(c) ==
  /\ pc[c] = "resume"
  /\ IF IsFresh(cached[c], now, opts[c].ttlMs)
       THEN /\ Return(c, cached[c].rates)
            /\ UNCHANGED <<provCalls, callsTo>>
       ELSE IF opts[c].offline
         THEN /\ Return(c, Fallback(cached[c]))
              /\ UNCHANGED <<provCalls, callsTo>>
         ELSE /\ pc' = [pc EXCEPT ![c] = "fetching"]
              /\ provCalls' = [provCalls EXCEPT ![c] = @ + 1]
              /\ callsTo' = [callsTo EXCEPT ![opts[c].provider] = @ + 1]
              /\ UNCHANGED result
  /\ UNCHANGED <<now, memoryCache, disk, opts, cached, snap, writes, fetchOutcome,
                 doneBefore, failsOf, otherWrites, mgrVars, cvVars, histVars, moreVars>>

\* writeCache that persists but leaves the in-process tier alone
writeCacheDiskOnly(c, s) ==
  /\ UNCHANGED memoryCache
  /\ writes' = [writes EXCEPT ![c] = Append(@, "mem")]
  /\ IF opts[c].persist
       THEN /\ pc' = [pc EXCEPT ![c] = "open"]
            /\ UNCHANGED result
       ELSE /\ result' = [result EXCEPT ![c] = s.rates]
            /\ pc' = [pc EXCEPT ![c] = "done"]

\* writeCache up to tryWriteJSON's first await
writeCache(c, s) ==
  /\ setMemoryCache(s)
  /\ writes' = [writes EXCEPT ![c] = Append(@, "mem")]
  /\ IF opts[c].persist
       THEN /\ pc' = [pc EXCEPT ![c] = "open"]
            /\ UNCHANGED result
       ELSE Return(c, s.rates)

\* a snapshot that keeps the capturedAt of the snapshot the call had read
ProviderResolvesOldStamp(c) ==
  /\ pc[c] = "fetching"
  /\ LET live == TableOf(opts[c].provider)
         at == IF cached[c].kind = "object" /\ cached[c].at \in Nat
                 THEN cached[c].at ELSE now
         s == Obj(at, live)
     IN /\ snap' = [snap EXCEPT ![c] = s]
        /\ writeCache(c, s)
  /\ fetchOutcome' = [fetchOutcome EXCEPT ![c] = "ok"]
  /\ UNCHANGED <<now, disk, opts, cached, provCalls, doneBefore,
                 callsTo, failsOf, otherWrites, mgrVars, cvVars, histVars, moreVars>>

\* the provider call resolves: build the snapshot and write the cache
ProviderResolves(c) ==
  /\ pc[c] = "fetching"
  /\ LET live == TableOf(opts[c].provider)
         s == Obj(now, live)
     IN /\ snap' = [snap EXCEPT ![c] = s]
        /\ writeCache(c, s)
  /\ fetchOutcome' = [fetchOutcome EXCEPT ![c] = "ok"]
  /\ UNCHANGED <<now, disk, opts, cached, provCalls, doneBefore,
                 callsTo, failsOf, otherWrites, mgrVars, cvVars, histVars, moreVars>>

\* a catch block that stores the fallback it returns as a new snapshot
ProviderRejectsWritesBack(c) ==
  /\ pc[c] = "fetching"
  /\ Return(c, Fallback(cached[c]))
  /\ setMemoryCache(Obj(now, Fallback(cached[c])))
  /\ fetchOutcome' = [fetchOutcome EXCEPT ![c] = "error"]
  /\ failsOf' = [failsOf EXCEPT ![opts[c].provider] = @ + 1]
  /\ UNCHANGED <<now, disk, opts, cached, snap, provCalls,
                 writes, doneBefore, callsTo, otherWrites, mgrVars, cvVars, histVars, moreVars>>

\* the provider call rejects: the catch block
ProviderRejects(c) ==
  /\ pc[c] = "fetching"
  /\ Return(c, Fallback(cached[c]))
  /\ fetchOutcome' = [fetchOutcome EXCEPT ![c] = "error"]
  /\ failsOf' = [failsOf EXCEPT ![opts[c].provider] = @ + 1]
  /\ UNCHANGED <<now, memoryCache, disk, opts, cached, snap, provCalls,
                 writes, doneBefore, callsTo, otherWrites, mgrVars, cvVars, histVars, moreVars>>

\* tryWriteJSON letting a failure through: it lands in the catch block of getRates
OpenFileRaises(c) ==
  /\ pc[c] = "open"
  /\ \/ /\ disk' = [state |-> "unparsable", val |-> NullVal]
        /\ pc' = [pc EXCEPT ![c] = "write"]
        /\ writes' = [writes EXCEPT ![c] = Append(@, "open")]
        /\ UNCHANGED result
     \/ /\ Return(c, Fallback(cached[c]))
        /\ writes' = [writes EXCEPT ![c] = Append(@, "failed")]
        /\ UNCHANGED disk
  /\ UNCHANGED <<now, memoryCache, opts, cached, snap, provCalls,
                 fetchOutcome, doneBefore, callsTo, failsOf, otherWrites, mgrVars, cvVars, histVars, moreVars>>

\* tryWriteJSON: fs.mkdir, then fs.writeFile opens the file, which truncates it;
\* a failure of either is swallowed and getRates returns live
OpenFile(c) ==
  /\ pc[c] = "open"
  /\ \/ /\ disk' = Truncated
        /\ pc' = [pc EXCEPT ![c] = "write"]
        /\ writes' = [writes EXCEPT ![c] = Append(@, "open")]
        /\ UNCHANGED result
     \/ /\ Return(c, snap[c].rates)
        /\ writes' = [writes EXCEPT ![c] = Append(@, "failed")]
        /\ UNCHANGED disk
  /\ UNCHANGED <<now, memoryCache, opts, cached, snap, provCalls,
                 fetchOutcome, doneBefore, callsTo, failsOf, otherWrites, mgrVars, cvVars, histVars, moreVars>>

\* tryWriteJSON: fs.writeFile writes the text from offset 0 and settles. Over an
\* empty file that leaves the text; over a text written meanwhile by another
\* fs.writeFile it leaves the text, followed by the other's tail if that is longer.
WriteData(c) ==
  /\ pc[c] = "write"
  /\ \/ /\ disk' = Stringify(snap[c])
        /\ writes' = [writes EXCEPT ![c] = Append(@, "data")]
     \/ /\ disk.state = "json"
        /\ disk' = Overwritten
        /\ writes' = [writes EXCEPT ![c] = Append(@, "data")]
     \/ /\ UNCHANGED disk
        /\ writes' = [writes EXCEPT ![c] = Append(@, "failed")]
  /\ Return(c, snap[c].rates)
  /\ UNCHANGED <<now, memoryCache, opts, cached, snap, provCalls,
                 fetchOutcome, doneBefore, callsTo, failsOf, otherWrites, mgrVars, cvVars, histVars, moreVars>>

\* another process running getRates on the same persistPath completes its
\* tryWriteJSON
OtherProcessWrites ==
  /\ otherWrites < MaxOtherWrites
  /\ otherWrites' = otherWrites + 1
  /\ \E p \in Providers : disk' = Stringify(Obj(now, TableOf(p)))
  /\ UNCHANGED <<now, memoryCache, pc, opts, cached, snap, result, provCalls,
                 writes, fetchOutcome, doneBefore, callsTo, failsOf, mgrVars, cvVars, histVars, moreVars>>

Tick ==
  /\ now < MaxTime
  /\ now' = now + 1
  /\ UNCHANGED <<memoryCache, disk, pc, opts, cached, snap, result,
                 provCalls, writes, fetchOutcome, doneBefore, callsTo, failsOf,
                 otherWrites, mgrVars, cvVars, histVars, moreVars>>

(* ------------------------- providers/manager.ts ----------------------- *)
\* the constructor's default timeout, ms
DefaultTimeout == 10000
\* the unit of the backoff delay, ms
BackoffUnit == 1000
\* `timeout = 5000` of the providers that declare one, ms
OwnTimeout == 5000
\* `timeout` of a provider that declares none
NoTimeout == 0 - 1
\* provider.timeout: exchangerate.host declares none, fixer.io and
\* currencyapi.com 5000
ProviderTimeout(p) == IF p = "P1" THEN NoTimeout ELSE OwnTimeout

NoErr == [kind |-> "none", from |-> "none"]
\* what a provider's fetchRatesSOS rejects with
ProviderError(p) == [kind |-> "provider", from |-> p]
\* fetchWithTimeout: new Error(`Provider ${provider.name} timed out after ${timeout}ms`)
TimeoutError(p) == [kind |-> "timeout", from |-> p]
\* `${lastError?.message}`
Message(e) == IF e = NoErr THEN [kind |-> "undefined", from |-> "none"] ELSE e
\* new Error(`All providers failed. Last error: ${lastError?.message}`)
AllProvidersFailed(e) == [status |-> "error", table |-> Undefined, last |-> Message(e)]
Returned(t) == [status |-> "ok", table |-> t, last |-> Message(NoErr)]
NoOutcome == [status |-> "none", table |-> Undefined, last |-> Message(NoErr)]

Event(ev, i, k, ms, e) == [ev |-> ev, i |-> i, k |-> k, ms |-> ms, err |-> e]

RECURSIVE Pow2(_)
\* Math.pow(2, n)
Pow2(n) == IF n <= 0 THEN 1 ELSE 2 * Pow2(n - 1)

\* the backoff with the exponent off by one: 2, 4, 8 s
BackoffDelayFromTwo(attempt) == Pow2(attempt) * BackoffUnit

\* const delay = Math.pow(2, attempt - 1) * 1000
BackoffDelay(attempt) == Pow2(attempt - 1) * BackoffUnit

\* the retry test off by one: a provider is given up one attempt early
RetriesLeftOneShort(attempt) == attempt + 1 < m_maxRetries

\* the retry test with <= for <: a delay follows the last attempt too
RetriesLeftInclusive(attempt) == attempt <= m_maxRetries

\* `attempt < this.config.maxRetries`: another attempt on the same provider follows
RetriesLeft(attempt) == attempt < m_maxRetries

\* fetchWithTimeout(provider, this.config.timeout): arm the timer, call the provider
StartAttempt(i, k, log) ==
  /\ m_pc' = "attempting"
  /\ m_idx' = i
  /\ m_attempt' = k
  /\ m_timer' = (m_timer \ {<<m_idx, m_attempt>>}) \cup {<<i, k>>}
  /\ m_log' = Append(log, Event("attempt", i, k, DefaultTimeout, NoErr))

\* fetchRates up to the first await
FetchRates ==
  /\ m_pc = "idle"
  /\ m_providers' = <<m_primary>> \o m_fallbacks
  /\ IF 1 <= m_maxRetries
       THEN /\ StartAttempt(1, 1, m_log)
            /\ UNCHANGED m_outcome
       ELSE /\ m_pc' = "failed"
            /\ m_outcome' = AllProvidersFailed(m_lastError)
            /\ UNCHANGED <<m_idx, m_attempt, m_timer, m_log>>
  /\ UNCHANGED <<m_lastError, m_delay, m_abandoned, m_late, cfgVars, ratesVars, cvVars, histVars, moreVars>>

\* the provider call resolves before the timer: clearTimeout, return rates
ProviderOk ==
  /\ m_pc = "attempting"
  /\ m_pc' = "success"
  /\ m_outcome' = Returned(TableOf(m_providers[m_idx]))
  /\ m_timer' = m_timer \ {<<m_idx, m_attempt>>}
  /\ m_log' = Append(m_log, Event("ok", m_idx, m_attempt, 0, NoErr))
  /\ UNCHANGED <<m_providers, m_idx, m_attempt, m_lastError, m_delay, m_abandoned,
                 m_late, cfgVars, ratesVars, cvVars, histVars, moreVars>>

\* lastError kept from the first failure on
KeepFirstError(e) == IF m_lastError = NoErr THEN e ELSE m_lastError

\* `lastError = error as Error`
NextLastError(e) == e

\* the catch block of fetchRates and what follows it up to the next await
Failed(e) ==
  LET log == Append(m_log, Event("fail", m_idx, m_attempt, 0, e))
  IN /\ m_lastError' = NextLastError(e)
     /\ IF RetriesLeft(m_attempt)
          THEN /\ m_pc' = "backoff"
               /\ m_delay' = BackoffDelay(m_attempt)
               /\ m_log' = Append(log, Event("delay", m_idx, m_attempt,
                                             BackoffDelay(m_attempt), NoErr))
               /\ m_timer' = m_timer \ {<<m_idx, m_attempt>>}
               /\ UNCHANGED <<m_idx, m_attempt, m_outcome>>
          ELSE IF m_idx < Len(m_providers)
            THEN /\ StartAttempt(m_idx + 1, 1, log)
                 /\ UNCHANGED <<m_delay, m_outcome>>
            ELSE /\ m_pc' = "failed"
                 /\ m_outcome' = AllProvidersFailed(NextLastError(e))
                 /\ m_log' = log
                 /\ m_timer' = m_timer \ {<<m_idx, m_attempt>>}
                 /\ UNCHANGED <<m_idx, m_attempt, m_delay>>

\* the provider call rejects before the timer: clearTimeout, reject(error)
ProviderErr ==
  /\ m_pc = "attempting"
  /\ Failed(ProviderError(m_providers[m_idx]))
  /\ UNCHANGED <<m_providers, m_abandoned, m_late, cfgVars, ratesVars, cvVars, histVars, moreVars>>

\* the timer fires first: reject with the timeout error; the provider call stays
\* in flight
TimerFires ==
  /\ m_pc = "attempting"
  /\ <<m_idx, m_attempt>> \in m_timer
  /\ Cardinality(m_abandoned \cup m_late) < MaxTimeouts
  /\ m_abandoned' = m_abandoned \cup {<<m_idx, m_attempt>>}
  /\ Failed(TimeoutError(m_providers[m_idx]))
  /\ UNCHANGED <<m_providers, m_late, cfgVars, ratesVars, cvVars, histVars, moreVars>>

\* the timer fires first, on an attempt whose provider call is followed no
\* further: whenever that call settles, nothing changes
TimerFiresUntracked ==
  /\ m_pc = "attempting"
  /\ <<m_idx, m_attempt>> \in m_timer
  /\ Cardinality(m_abandoned \cup m_late) >= MaxTimeouts
  /\ Failed(TimeoutError(m_providers[m_idx]))
  /\ UNCHANGED <<m_providers, m_abandoned, m_late, cfgVars, ratesVars, cvVars,
                 histVars, moreVars>>

\* the backoff timer fires: the next attempt on the same provider
BackoffElapsed ==
  /\ m_pc = "backoff"
  /\ StartAttempt(m_idx, m_attempt + 1, m_log)
  /\ m_delay' = 0
  /\ UNCHANGED <<m_providers, m_lastError, m_outcome, m_abandoned, m_late,
                 cfgVars, ratesVars, cvVars, histVars, moreVars>>

\* the late response of an abandoned call settling the attempt in progress
LateSettleTaken(call) ==
  /\ call \in m_abandoned
  /\ m_abandoned' = m_abandoned \ {call}
  /\ m_late' = m_late \cup {call}
  /\ IF m_pc = "attempting"
       THEN /\ m_pc' = "success"
            /\ m_outcome' = Returned(TableOf(m_providers[call[1]]))
            /\ m_timer' = {}
            /\ m_log' = Append(m_log, Event("ok", m_idx, m_attempt, 0, NoErr))
       ELSE UNCHANGED <<m_pc, m_outcome, m_timer, m_log>>
  /\ UNCHANGED <<m_providers, m_idx, m_attempt, m_lastError, m_delay,
                 cfgVars, ratesVars, cvVars, histVars, moreVars>>

\* an abandoned provider call settles: resolve/reject of a settled promise and
\* clearTimeout of a fired timer do nothing
LateSettle(call) ==
  /\ call \in m_abandoned
  /\ m_abandoned' = m_abandoned \ {call}
  /\ m_late' = m_late \cup {call}
  /\ UNCHANGED <<m_pc, m_providers, m_idx, m_attempt, m_lastError, m_outcome,
                 m_delay, m_timer, m_log, cfgVars, ratesVars, cvVars, histVars, moreVars>>

DoLateSettle == \E call \in m_abandoned : LateSettle(call)

\* `priority` of a provider that declares none
NoPriority == 0 - 1
\* the priorities a provider may declare, and none
Priorities == {NoPriority, 0, 1, 2, 1000}
\* (a.priority || 999)
DefaultPriority == 999
SortKey(p) ==
  IF m_priority[p] = NoPriority THEN DefaultPriority
  ELSE IF m_priority[p] = 0 THEN DefaultPriority
  ELSE m_priority[p]

RECURSIVE InsertSorted(_, _)
\* p placed before the first element the comparator puts after it
InsertSorted(seq, p) ==
  IF seq = <<>> THEN <<p>>
  ELSE IF SortKey(p) - SortKey(Head(seq)) < 0 THEN <<p>> \o seq
  ELSE <<Head(seq)>> \o InsertSorted(Tail(seq), p)

RECURSIVE SortFallbacks(_)
\* fallbacks.sort((a, b) => (a.priority || 999) - (b.priority || 999)); the sort
\* is stable
SortFallbacks(seq) ==
  IF seq = <<>> THEN <<>>
  ELSE InsertSorted(SortFallbacks(SubSeq(seq, 1, Len(seq) - 1)), seq[Len(seq)])

\* addFallbackProvider(provider): push, then sort
AddFallbackProvider(p) ==
  /\ Len(m_fallbacks) < MaxFallbacks + MaxAdds
  /\ m_fallbacks' = SortFallbacks(Append(m_fallbacks, p))
  /\ UNCHANGED <<m_primary, m_maxRetries, runVars, ratesVars, cvVars, histVars,
                 moreVars>>

\* setPrimaryProvider(provider)
SetPrimaryProvider(p) ==
  /\ m_primary' = p
  /\ UNCHANGED <<m_fallbacks, m_maxRetries, runVars, ratesVars, cvVars, histVars,
                 moreVars>>

(* ------------------------- numbers and rates --------------------------- *)
\* A JavaScript number m * 2^e held to MantissaBits significant bits: every
\* arithmetic result is rounded to the nearest such number, ties to even.
\* The exponent is not bounded.
Num(m, e) == [kind |-> "num", m |-> m, e |-> e]
NumZero == Num(0, 0)
\* what evaluating an expression raises when it reads a property of undefined
TypeError == [kind |-> "TypeError", m |-> 0, e |-> 0]
NoNum == [kind |-> "none", m |-> 0, e |-> 0]
\* table[cur] of a table without that key
UndefinedNum == [kind |-> "undefined", m |-> 0, e |-> 0]
\* arithmetic on undefined
NaN == [kind |-> "NaN", m |-> 0, e |-> 0]

Abs(n) == IF n < 0 THEN 0 - n ELSE n
Sign(n) == IF n < 0 THEN 0 - 1 ELSE 1

RECURSIVE BitLen(_)
BitLen(n) == IF n = 0 THEN 0 ELSE 1 + BitLen(n \div 2)

\* the number nearest to n * 2^e; `inexact` says n was cut off above a nonzero
\* fraction of its last unit
Round(n, e, inexact) ==
  IF n = 0 THEN NumZero
  ELSE LET mag == Abs(n)
           s == BitLen(mag) - MantissaBits
       IN IF s <= 0
            THEN Num(Sign(n) * mag * Pow2(0 - s), e + s)
            ELSE LET q == mag \div Pow2(s)
                     r == mag % Pow2(s)
                     half == Pow2(s - 1)
                     up == r > half \/ (r = half /\ (inexact \/ q % 2 = 1))
                     q1 == IF up THEN q + 1 ELSE q
                 IN IF q1 = Pow2(MantissaBits)
                      THEN Num(Sign(n) * Pow2(MantissaBits - 1), e + s + 1)
                      ELSE Num(Sign(n) * q1, e + s)

\* the integer n as a number
NumOf(n) == Round(n, 0, FALSE)
\* the number n / 2^k
Dyadic(n, k) == Round(n, 0 - k, FALSE)

\* a * b
NumMul(a, b) ==
  IF a.kind # "num" THEN NaN
  ELSE IF b.kind # "num" THEN NaN
  ELSE Round(a.m * b.m, a.e + b.e, FALSE)

\* a / b, for b other than zero
NumDiv(a, b) ==
  IF a.kind # "num" THEN NaN
  ELSE IF b.kind # "num" THEN NaN
  ELSE LET k == MantissaBits + 2
           n == Abs(a.m) * Pow2(k)
           q == n \div Abs(b.m)
           r == n % Abs(b.m)
       IN Round(Sign(a.m) * Sign(b.m) * q, a.e - b.e - k, r # 0)

\* a + b: exact when the exponents are close; otherwise the smaller operand is
\* below a quarter of the larger one's last unit and the larger is the result
NumAdd(a, b) ==
  IF a.m = 0 THEN b
  ELSE IF b.m = 0 THEN a
  ELSE IF a.e - b.e > MantissaBits + 2 THEN a
  ELSE IF b.e - a.e > MantissaBits + 2 THEN b
  ELSE LET e == IF a.e < b.e THEN a.e ELSE b.e
       IN Round(a.m * Pow2(a.e - e) + b.m * Pow2(b.e - e), e, FALSE)

\* a - b
NumSub(a, b) == NumAdd(a, Num(0 - b.m, b.e))

RECURSIVE SqrtBetween(_, _, _)
\* the largest q in lo..hi with q * q <= n
SqrtBetween(n, lo, hi) ==
  IF lo = hi THEN lo
  ELSE LET mid == (lo + hi + 1) \div 2
       IN IF mid * mid <= n THEN SqrtBetween(n, mid, hi)
          ELSE SqrtBetween(n, lo, mid - 1)

\* Math.sqrt(a), for a >= 0
NumSqrt(a) ==
  IF a.m = 0 THEN NumZero
  ELSE LET k == IF (a.e - MantissaBits - 2) % 2 = 0 THEN MantissaBits + 2
                ELSE MantissaBits + 3
           n == a.m * Pow2(k)
           q == SqrtBetween(n, 0, Pow2(MantissaBits + 2))
       IN Round(q, (a.e - k) \div 2, q * q # n)

\* the currencies: the pivot and two others of ISO4217
Pivot == "SOS"
Currencies == {"SOS", "USD", "KES"}

\* table[cur]: 1 SOS in cur. Every table holds 1 for SOS and a positive rate
\* for every other currency.
RateOf(t, cur) ==
  IF cur \notin Currencies THEN UndefinedNum
  ELSE IF cur = Pivot THEN NumOf(1)
  ELSE IF t = "seed" THEN (IF cur = "USD" THEN Dyadic(7, 12) ELSE Dyadic(29, 7))
  ELSE IF t = "Told" THEN (IF cur = "USD" THEN Dyadic(15, 13) ELSE Dyadic(27, 7))
  ELSE IF t = "T1" THEN (IF cur = "USD" THEN Dyadic(57, 15) ELSE Dyadic(115, 9))
  ELSE (IF cur = "USD" THEN Dyadic(49, 15) ELSE Dyadic(113, 9))

\* the amounts given to convert
Amounts == {NumOf(49), NumOf(100)}

(* -------------------------- index.ts: convert -------------------------- *)
NoArgs == [amount |-> NoNum, from |-> "none", to |-> "none"]
NoSame == [amount |-> NoNum, cur |-> "none", result |-> NoNum]

\* the conversion dividing by table[from] where convert multiplies by 1 / table[from]
ConvertValueDivides(amount, from, to, table) ==
  IF table \notin Tables THEN TypeError
  ELSE IF from = "SOS" THEN NumMul(amount, RateOf(table, to))
  ELSE IF to = "SOS" THEN NumDiv(amount, RateOf(table, from))
  ELSE NumMul(NumDiv(amount, RateOf(table, from)), RateOf(table, to))

\* the conversion without the inversion of table[from]
ConvertValueNoInverse(amount, from, to, table) ==
  IF table \notin Tables THEN TypeError
  ELSE IF from = "SOS" THEN NumMul(amount, RateOf(table, to))
  ELSE IF to = "SOS" THEN NumMul(amount, RateOf(table, from))
  ELSE NumMul(NumMul(amount, RateOf(table, from)), RateOf(table, to))

\* convert from `if (from === "SOS")` on; table[to] of undefined raises
ConvertValue(amount, from, to, table) ==
  IF table \notin Tables THEN TypeError
  ELSE IF from = "SOS" THEN NumMul(amount, RateOf(table, to))
  ELSE IF to = "SOS" THEN NumMul(amount, NumDiv(NumOf(1), RateOf(table, from)))
  ELSE LET inSOS == NumMul(amount, NumDiv(NumOf(1), RateOf(table, from)))
       IN NumMul(inSOS, RateOf(table, to))

\* the calls made so far have all returned to their callers
NoneInFlight ==
  \A d \in Calls :
    IF pc[d] = "idle" THEN TRUE
    ELSE IF pc[d] # "done" THEN FALSE
    ELSE IF cv_result[d] # NoNum THEN TRUE
    ELSE g_result[d] # NoNum

\* the amounts a caller has at hand: its own, and the results of its conversions
AmountsAtHand == Amounts \cup {cv_result[d] : d \in {e \in Calls : cv_result[e].kind = "num"}}

\* convert with from === to going to the provider all the same
ConvertSameFetches(amount, cur) ==
  /\ NoneInFlight
  /\ cv_same = NoSame
  /\ cv_same' = [amount |-> amount, cur |-> cur, result |-> amount]
  /\ callsTo' = [callsTo EXCEPT !["P1"] = @ + 1]
  /\ UNCHANGED <<now, memoryCache, disk, pc, opts, cached, snap, result, provCalls,
                 writes, fetchOutcome, doneBefore, failsOf, otherWrites,
                 mgrVars, cv_args, cv_result, histVars, moreVars>>

\* convert with from === to: `return amount`
ConvertSame(amount, cur) ==
  /\ NoneInFlight
  /\ cv_same = NoSame
  /\ cv_same' = [amount |-> amount, cur |-> cur, result |-> amount]
  /\ UNCHANGED <<ratesVars, mgrVars, cv_args, cv_result, histVars, moreVars>>

\* convert with from !== to, up to `await getRates(options)`
\* (a caller is followed up to its first conversion with from === to)
Convert(c, amount, from, to, o) ==
  /\ from # to
  /\ NoneInFlight
  /\ cv_same = NoSame
  /\ GetRates(c, o)
  /\ cv_args' = [cv_args EXCEPT ![c] = [amount |-> amount, from |-> from, to |-> to]]
  /\ UNCHANGED <<cv_result, cv_same, histVars, moreVars>>

\* getRates has resolved: the arithmetic, and the return
ConvertReturns(c) ==
  /\ pc[c] = "done"
  /\ cv_args[c] # NoArgs
  /\ cv_result[c] = NoNum
  /\ cv_result' = [cv_result EXCEPT ![c] =
       ConvertValue(cv_args[c].amount, cv_args[c].from, cv_args[c].to, result[c])]
  /\ UNCHANGED <<ratesVars, mgrVars, cv_args, cv_same, histVars, moreVars>>

\* a code that is no key of the rate table
Unsupported == "XXX"
Codes == Currencies \cup {Unsupported}
NoTarget == "none"

\* getRate(target, options) up to `await getRates(options)`
GetRate(c, target, o) ==
  /\ NoneInFlight
  /\ GetRates(c, o)
  /\ g_target' = [g_target EXCEPT ![c] = target]
  /\ UNCHANGED <<g_result, cvVars, histVars, scanVars, descVars, volVars,
                 respVars, laterVars>>

\* getRates has resolved: `return table[target]`
GetRateReturns(c) ==
  /\ pc[c] = "done"
  /\ g_target[c] # NoTarget
  /\ g_result[c] = NoNum
  /\ g_result' = [g_result EXCEPT ![c] =
       IF result[c] \notin Tables THEN TypeError ELSE RateOf(result[c], g_target[c])]
  /\ UNCHANGED <<g_target, ratesVars, mgrVars, cvVars, histVars, scanVars, descVars,
                 volVars, respVars, laterVars>>

\* no getRate made
InitRate ==
  /\ g_target = [c \in Calls |-> NoTarget]
  /\ g_result = [c \in Calls |-> NoNum]

InitConvert ==
  /\ cv_args = [c \in Calls |-> NoArgs]
  /\ cv_result = [c \in Calls |-> NoNum]
  /\ cv_same = NoSame

(* ------------------- localization.ts: HistoricalRateService ------------ *)
\* cutoffDate.setDate(cutoffDate.getDate() - 90)
RetentionDays == 90

HistCalls == 1..NumHistCalls
Days == FirstDay..(FirstDay + MaxDays)
\* The dates asked for, as day numbers (ISO date strings compare as their days):
\* 91 and 90 days before the first day, and the day before it.
Dates == {FirstDay - RetentionDays - 1, FirstDay - RetentionDays, FirstDay - 1}
NoDate == 0 - 1

\* the table provider p returns for date d; "file": a table found in the cache
HTable(p, d) == [kind |-> "table", by |-> p, for |-> d]
NoTable == [kind |-> "none", by |-> "none", for |-> NoDate]
\* new Error(`All providers failed for historical data. Last error: ...`), with
\* the provider whose error it quotes ("none": lastError is null)
HError(p, d) == [kind |-> "error", by |-> p, for |-> d]

\* a HistoricalCache: a table for each of some dates
EmptyCache == [d \in {} |-> NoTable]
HFileOf(state, cache) == [state |-> state, val |-> cache]
\* the caches found in the file when the program starts
InitialCaches == {[d \in S |-> HTable("file", d)] : S \in SUBSET Dates}
\* a cache text written over a longer one that another writer put in the file
\* meanwhile: JSON.parse rejects it
HOverwritten == HFileOf("unparsable", EmptyCache)
InitialHistFiles ==
  {HFileOf("missing", EmptyCache), HFileOf("unparsable", EmptyCache)}
    \cup {HFileOf("json", cache) : cache \in InitialCaches}

NoHistCall ==
  [pc |-> "idle", date |-> NoDate, idx |-> 0, rates |-> NoTable, cutoff |-> NoDate,
   cached |-> EmptyCache, pending |-> EmptyCache, result |-> NoTable, calls |-> <<>>, writes |-> <<>>]

\* getCachedRates: `cached || {}` of tryReadJSON
getCachedRates(file) == IF file.state = "json" THEN file.val ELSE EmptyCache

\* cached[date] = rates
Store(cache, d, rates) ==
  [k \in DOMAIN cache \cup {d} |-> IF k = d THEN rates ELSE cache[k]]

\* a write that deletes nothing
PruneNothing(cache, cutoff) == cache

\* a pruning that deletes the entry of the cutoff date too
PruneCutoffToo(cache, cutoff) == [k \in {j \in DOMAIN cache : j > cutoff} |-> cache[k]]

\* Object.keys(cached).forEach(date => { if (date < cutoffStr) delete cached[date] })
Prune(cache, cutoff) == [k \in {j \in DOMAIN cache : j >= cutoff} |-> cache[k]]

\* a traversal that does not look at the capability
HistProvidersUnfiltered == <<m_primary>> \o m_fallbacks

\* a traversal that takes the primary provider to be capable
HistProvidersPrimaryToo ==
  <<m_primary>> \o SelectSeq(m_fallbacks, LAMBDA p : p \in m_capable)

\* fetchHistoricalRates: [primary, ...fallbacks].filter(p => p.fetchHistoricalRates)
HistProviders == SelectSeq(<<m_primary>> \o m_fallbacks, LAMBDA p : p \in m_capable)

\* getHistoricalRates up to `await this.getCachedRates()`
GetHistoricalRates(c, d) ==
  /\ h_call[c].pc = "idle"
  /\ IF c = 1 THEN TRUE ELSE h_call[c - 1].pc # "idle"
  /\ h_call' = [h_call EXCEPT ![c] = [@ EXCEPT !.pc = "read", !.date = d]]
  /\ UNCHANGED <<m_capable, h_today, h_file, ratesVars, mgrVars, cvVars, moreVars>>

\* the cache check that never finds an entry
HReadDoneNoCache(c) ==
  /\ h_call[c].pc = "read"
  /\ h_call' = [h_call EXCEPT ![c] =
       IF HistProviders = <<>>
         THEN [@ EXCEPT !.pc = "failed", !.result = HError("none", h_call[c].date)]
         ELSE [@ EXCEPT !.pc = "fetching", !.idx = 1, !.calls = <<HistProviders[1]>>]]
  /\ UNCHANGED <<m_capable, h_today, h_file, ratesVars, mgrVars, cvVars, moreVars>>

\* the cache file was read: return the entry of the date, or go to the providers
\* (fetchHistoricalRates up to its first await, or its throw when no provider
\* has the capability)
HReadDone(c) ==
  /\ h_call[c].pc = "read"
  /\ LET cache == getCachedRates(h_file)
         d == h_call[c].date
     IN h_call' = [h_call EXCEPT ![c] =
          IF d \in DOMAIN cache
            THEN [@ EXCEPT !.pc = "done", !.result = cache[d]]
            ELSE IF HistProviders = <<>>
              THEN [@ EXCEPT !.pc = "failed", !.result = HError("none", d)]
              ELSE [@ EXCEPT !.pc = "fetching", !.idx = 1,
                             !.calls = <<HistProviders[1]>>]]
  /\ UNCHANGED <<m_capable, h_today, h_file, ratesVars, mgrVars, cvVars, moreVars>>

\* provider.fetchHistoricalRates(date) resolves: cacheRates up to its await of
\* getCachedRates
HProviderResolves(c) ==
  /\ h_call[c].pc = "fetching"
  /\ h_call' = [h_call EXCEPT ![c] =
       [@ EXCEPT !.pc = "reread",
                 !.rates = HTable(HistProviders[h_call[c].idx], h_call[c].date)]]
  /\ UNCHANGED <<m_capable, h_today, h_file, ratesVars, mgrVars, cvVars, moreVars>>

\* a failure of the last provider that is swallowed: the call goes on to cacheRates
\* with no table
HProviderRejectsSwallowed(c) ==
  /\ h_call[c].pc = "fetching"
  /\ LET i == h_call[c].idx
     IN h_call' = [h_call EXCEPT ![c] =
          IF i < Len(HistProviders)
            THEN [@ EXCEPT !.idx = i + 1, !.calls = Append(@, HistProviders[i + 1])]
            ELSE [@ EXCEPT !.pc = "reread"]]
  /\ UNCHANGED <<m_capable, h_today, h_file, ratesVars, mgrVars, cvVars, moreVars>>

\* provider.fetchHistoricalRates(date) rejects: the next provider, or the throw
HProviderRejects(c) ==
  /\ h_call[c].pc = "fetching"
  /\ LET i == h_call[c].idx
     IN h_call' = [h_call EXCEPT ![c] =
          IF i < Len(HistProviders)
            THEN [@ EXCEPT !.idx = i + 1, !.calls = Append(@, HistProviders[i + 1])]
            ELSE [@ EXCEPT !.pc = "failed",
                           !.result = HError(HistProviders[i], h_call[c].date)]]
  /\ UNCHANGED <<m_capable, h_today, h_file, ratesVars, mgrVars, cvVars, moreVars>>

\* cacheRates from `cached[date] = rates` to tryWriteJSON's first await
HRereadDone(c) ==
  /\ h_call[c].pc = "reread"
  /\ LET cache == getCachedRates(h_file)
         cutoff == h_today - RetentionDays
     IN h_call' = [h_call EXCEPT ![c] =
          [@ EXCEPT !.pc = "open", !.cutoff = cutoff, !.cached = cache,
                    !.pending = Prune(Store(cache, h_call[c].date, h_call[c].rates),
                                      cutoff)]]
  /\ UNCHANGED <<m_capable, h_today, h_file, ratesVars, mgrVars, cvVars, moreVars>>

\* tryWriteJSON: fs.mkdir, then fs.writeFile opens the file, which truncates it;
\* a failure of either is swallowed and getHistoricalRates returns rates
HOpenFile(c) ==
  /\ h_call[c].pc = "open"
  /\ \/ /\ h_file' = HFileOf("unparsable", EmptyCache)
        /\ h_call' = [h_call EXCEPT ![c] =
             [@ EXCEPT !.pc = "write", !.writes = Append(@, "open")]]
     \/ /\ h_call' = [h_call EXCEPT ![c] =
             [@ EXCEPT !.pc = "done", !.result = h_call[c].rates,
                       !.writes = Append(@, "failed")]]
        /\ UNCHANGED h_file
  /\ UNCHANGED <<m_capable, h_today, ratesVars, mgrVars, cvVars, moreVars>>

\* tryWriteJSON: fs.writeFile writes the text from offset 0 and settles (over a
\* longer text written meanwhile by another fs.writeFile, that text's tail stays)
HWriteData(c) ==
  /\ h_call[c].pc = "write"
  /\ \/ /\ h_file' = HFileOf("json", h_call[c].pending)
        /\ h_call' = [h_call EXCEPT ![c] =
             [@ EXCEPT !.pc = "done", !.result = h_call[c].rates,
                       !.writes = Append(@, "data")]]
     \/ /\ h_file.state = "json"
        /\ h_file' = HOverwritten
        /\ h_call' = [h_call EXCEPT ![c] =
             [@ EXCEPT !.pc = "done", !.result = h_call[c].rates,
                       !.writes = Append(@, "data")]]
     \/ /\ h_call' = [h_call EXCEPT ![c] =
             [@ EXCEPT !.pc = "done", !.result = h_call[c].rates,
                       !.writes = Append(@, "failed")]]
        /\ UNCHANGED h_file
  /\ UNCHANGED <<m_capable, h_today, ratesVars, mgrVars, cvVars, moreVars>>

\* midnight
NextDay ==
  /\ h_today < FirstDay + MaxDays
  /\ h_today' = h_today + 1
  /\ UNCHANGED <<m_capable, h_file, h_call, ratesVars, mgrVars, cvVars, moreVars>>

\* no historical call made, no historical cache on disk
InitHist ==
  /\ m_capable = {}
  /\ h_today = FirstDay
  /\ h_file = HFileOf("missing", EmptyCache)
  /\ h_call = [c \in HistCalls |-> NoHistCall]

(* ---------------- localization.ts: getRateHistory ------------------- *)
\* A Date is an instant, in hours since the epoch of the day numbers.
HoursPerDay == 24
\* new Date("YYYY-MM-DD"): midnight UTC of that day
Midnight(d) == HoursPerDay * d
\* toISOString().split('T')[0]: the UTC calendar day of an instant
DateStr(t) == t \div HoursPerDay

\* the days a range may start and end on
RangeFirst == FirstDay - RetentionDays - 1
RangeDays == RangeFirst..(RangeFirst + MaxSpan)

\* A time zone: local time is UTC + off hours, and + by more from instant `at` on
\* (by = 0: the zone never changes its clocks).
TimeZone(off, at, by) == [off |-> off, at |-> at, by |-> by]
\* Africa/Mogadishu; America/New_York when its clocks go forward (02:00 EST, 07:00
\* UTC) and Europe/Berlin when its clocks go back (03:00 CEST, 01:00 UTC), both on
\* the second day a range may cover
TimeZones ==
  { TimeZone(3, 0, 0),
    TimeZone(0 - 5, Midnight(RangeFirst + 1) + 7, 1),
    TimeZone(2, Midnight(RangeFirst + 1) + 1, 0 - 1) }

Offset(tz, t) == tz.off + (IF tz.by # 0 /\ t >= tz.at THEN tz.by ELSE 0)
LocalTime(tz, t) == t + Offset(tz, t)
\* the instant of a local time; a repeated or skipped local time is read with the
\* offset before the change
UTC(tz, wall) ==
  LET early == wall - tz.off
      late == wall - tz.off - tz.by
  IN IF tz.by = 0 THEN early
     ELSE IF early < tz.at THEN early
     ELSE IF late >= tz.at THEN late
     ELSE early
\* currentDate.setDate(currentDate.getDate() + 1): the same local time, one local
\* calendar day later
NextLocalDay(tz, t) == UTC(tz, LocalTime(tz, t) + HoursPerDay)

\* the getHistoricalRates call of a scan runs in this slot
ScanCall == 1
NoScan ==
  [pc |-> "idle", from |-> NoDate, to |-> NoDate, cur |-> 0, end |-> 0,
   asked |-> <<>>, skipped |-> <<>>, results |-> <<>>]

\* `while (currentDate <= endDate)` and the loop body up to its await of
\* getHistoricalRates(dateStr), or `return results`
ScanLoop(scan, t) ==
  IF t <= scan.end
    THEN /\ s_scan' = [scan EXCEPT !.pc = "waiting", !.cur = t,
                                   !.asked = Append(@, DateStr(t))]
         /\ h_call' = [h_call EXCEPT ![ScanCall] =
              [NoHistCall EXCEPT !.pc = "read", !.date = DateStr(t)]]
    ELSE /\ s_scan' = [scan EXCEPT !.pc = "done", !.cur = t]
         /\ UNCHANGED h_call

\* getRateHistory({from, to, currency}) up to its first await
GetRateHistory(from, to) ==
  /\ s_scan.pc = "idle"
  /\ \A c \in HistCalls : h_call[c].pc = "idle"
  /\ ScanLoop([NoScan EXCEPT !.from = from, !.to = to, !.end = Midnight(to)],
              Midnight(from))
  /\ UNCHANGED <<m_capable, h_today, h_file, s_tz, ratesVars, mgrVars, cvVars,
                 descVars, volVars, rateVars, respVars, laterVars>>

\* getHistoricalRates(dateStr) resolved: results.push({date: dateStr, rate}) with
\* the currency's rate in that table, then the next day
ScanDayResolves ==
  /\ s_scan.pc = "waiting"
  /\ h_call[ScanCall].pc = "done"
  /\ ScanLoop([s_scan EXCEPT !.results =
                 Append(@, [date |-> h_call[ScanCall].date,
                            rates |-> h_call[ScanCall].result])],
              NextLocalDay(s_tz, s_scan.cur))
  /\ UNCHANGED <<m_capable, h_today, h_file, s_tz, ratesVars, mgrVars, cvVars,
                 descVars, volVars, rateVars, respVars, laterVars>>

\* getHistoricalRates(dateStr) rejected: console.warn(`Skipping ...`), then the
\* next day
ScanDayRejects ==
  /\ s_scan.pc = "waiting"
  /\ h_call[ScanCall].pc = "failed"
  /\ ScanLoop([s_scan EXCEPT !.skipped = Append(@, h_call[ScanCall].date)],
              NextLocalDay(s_tz, s_scan.cur))
  /\ UNCHANGED <<m_capable, h_today, h_file, s_tz, ratesVars, mgrVars, cvVars,
                 descVars, volVars, rateVars, respVars, laterVars>>

(* ---------------- localization.ts: getVolatility -------------------- *)
\* Math.sqrt(365): the days of a year
DaysPerYear == 365
\* the currency whose volatility is asked for
VolCurrency == "USD"
\* rates[currency] of a historical table: a provider's rate for the currency, the
\* same for every date; a table found in the cache file holds an older rate
HRateOf(table, cur) ==
  IF table.by \in Providers THEN RateOf(TableOf(table.by), cur)
  ELSE RateOf("Told", cur)

\* results, as getRateHistory returns them with baseCurrency 'SOS'
HistoryOf(results, cur) ==
  [i \in 1..Len(results) |->
     [date |-> results[i].date, rate |-> HRateOf(results[i].rates, cur)]]

RECURSIVE NumSum(_)
\* seq.reduce((sum, x) => sum + x, 0)
NumSum(seq) ==
  IF seq = <<>> THEN NumZero
  ELSE NumAdd(NumSum(SubSeq(seq, 1, Len(seq) - 1)), seq[Len(seq)])

\* dailyReturn = (history[i].rate - history[i-1].rate) / history[i-1].rate
DailyReturns(history) ==
  [i \in 1..(Len(history) - 1) |->
     NumDiv(NumSub(history[i + 1].rate, history[i].rate), history[i].rate)]

\* mean and variance of the returns, both divided by returns.length
Variance(returns) ==
  LET mean == NumDiv(NumSum(returns), NumOf(Len(returns)))
      squares == [i \in 1..Len(returns) |->
                    NumMul(NumSub(returns[i], mean), NumSub(returns[i], mean))]
  IN NumDiv(NumSum(squares), NumOf(Len(returns)))

\* getVolatility from `if (history.length < 2) return 0` on
Volatility(history) ==
  IF Len(history) < 2 THEN NumZero
  ELSE NumMul(NumSqrt(Variance(DailyReturns(history))), NumSqrt(NumOf(DaysPerYear)))

NoVolCall == [pc |-> "idle", days |-> 0, result |-> NoNum]

\* getVolatility(currency, `${days}d`) up to getRateHistory's first await
GetVolatility(days) ==
  /\ v_call.pc = "idle"
  /\ s_scan.pc = "idle"
  /\ \A c \in HistCalls : h_call[c].pc = "idle"
  /\ v_call' = [NoVolCall EXCEPT !.pc = "scanning", !.days = days]
  /\ ScanLoop([NoScan EXCEPT !.from = h_today - days, !.to = h_today,
                             !.end = Midnight(h_today)],
              Midnight(h_today - days))
  /\ UNCHANGED <<m_capable, h_today, h_file, s_tz, ratesVars, mgrVars, cvVars,
                 descVars, rateVars, respVars, laterVars>>

\* getRateHistory has resolved: the returns, their deviation, the result
VolatilityReturns ==
  /\ v_call.pc = "scanning"
  /\ s_scan.pc = "done"
  /\ v_call' = [v_call EXCEPT !.pc = "done",
                 !.result = Volatility(HistoryOf(s_scan.results, VolCurrency))]
  /\ UNCHANGED <<ratesVars, mgrVars, cvVars, histVars, scanVars, descVars,
                 rateVars, respVars, laterVars>>

\* no getVolatility made
InitVol == v_call = NoVolCall

(* ------------- providers: exchangeratehost.ts, fixer.ts, currencyapi.ts ---- *)
BuiltIns == {"exchangerate.host", "fixer.io", "currencyapi.com"}

\* the body of a response without `rates` (or, for currencyapi.com, `data`)
NoRates == [k \in {} |-> NumZero]
\* An HTTP response: res.ok, whether the body reports an error (fixer.io:
\* success false; currencyapi.com: errors), whether it has rates at all, and the
\* rates of 1 USD it quotes.
Response(ok, flagged, hasRates, rates) ==
  [ok |-> ok, flagged |-> flagged, hasRates |-> hasRates, rates |-> rates]
\* the rates a response may quote for each code: none, or one of these
QuotedRates(k) ==
  IF k = "SOS" THEN {NumZero, NumOf(570), NumOf(571)}
  ELSE IF k = "USD" THEN {NumOf(1)}
  ELSE {NumOf(128)}
RateMaps ==
  UNION {[S -> UNION {QuotedRates(k) : k \in S}] : S \in SUBSET Currencies}
Responses ==
  {Response(ok, flagged, TRUE, rates) :
     ok \in BOOLEAN, flagged \in BOOLEAN,
     rates \in {m \in RateMaps : \A k \in DOMAIN m : m[k] \in QuotedRates(k)}}
    \cup {Response(TRUE, FALSE, FALSE, NoRates)}

\* throw new Error(...), or the TypeError of reading a property of undefined
Rejected(msg) == [kind |-> "error", msg |-> msg, rates |-> NoRates]
Resolved(table) == [kind |-> "table", msg |-> "none", rates |-> table]
NotSettled == [kind |-> "none", msg |-> "none", rates |-> NoRates]

\* usdTo["SOS"]
Quoted(rates, k) == IF k \in DOMAIN rates THEN rates[k] ELSE UndefinedNum

\* a provider that never finds the SOS rate missing
IsFalsyNever(x) == FALSE

\* `!sosPerUsd`: undefined and 0 are falsy
IsFalsy(x) == IF x.kind # "num" THEN TRUE ELSE x.m = 0

\* utils.ts invert: out[k] = v / sosPerBase for every entry
invert(baseToOthers, sosPerBase) ==
  [k \in DOMAIN baseToOthers |-> NumDiv(baseToOthers[k], sosPerBase)]

\* fetchRatesSOS of provider p from the response on
fetchRatesSOS(p, res) ==
  IF ~res.ok THEN Rejected("http")
  ELSE IF p # "exchangerate.host" /\ res.flagged THEN Rejected("api")
  ELSE IF ~res.hasRates THEN Rejected("TypeError")
  ELSE LET sosPerUsd == Quoted(res.rates, "SOS")
       IN IF IsFalsy(sosPerUsd) THEN Rejected("no SOS rate")
          ELSE Resolved(invert(res.rates, sosPerUsd))

\* the response arrives and fetchRatesSOS settles
FetchRatesSOS ==
  /\ r_result = NotSettled
  /\ r_result' = fetchRatesSOS(r_provider, r_response)
  /\ UNCHANGED <<r_provider, r_response, ratesVars, mgrVars, cvVars, histVars,
                 scanVars, descVars, volVars, rateVars, laterVars>>

\* no response followed
InitResp ==
  /\ r_provider = "exchangerate.host"
  /\ r_response = Response(TRUE, FALSE, FALSE, NoRates)
  /\ r_result = NotSettled

(* ---------------- realtime.ts: RateStreamClient ------------------- *)
\* private maxReconnectAttempts = 5
MaxReconnectAttempts == 5
\* private reconnectDelay = 1000, ms
ReconnectDelay == 1000

Sockets == 1..MaxSockets
NoSocket == 0
\* the WebSockets created so far
Made == Cardinality({s \in Sockets : w_sock[s] # "none"})

\* attemptReconnect, `timers` being the pending timers when it is called
attemptReconnect(timers) ==
  IF w_attempts < MaxReconnectAttempts
    THEN /\ w_attempts' = w_attempts + 1
         /\ w_timers' = Append(timers, ReconnectDelay * Pow2(w_attempts + 1 - 1))
         /\ UNCHANGED w_maxed
    ELSE /\ w_maxed' = w_maxed + 1
         /\ w_timers' = timers
         /\ UNCHANGED w_attempts

\* connect(): `this.ws = new WebSocket(this.url)` and the four handlers, or the
\* catch block when the constructor throws (then this.ws keeps its value);
\* `timers` is the pending timers as the caller leaves them
connect(timers) ==
  /\ w_connects' = w_connects + 1
  /\ IF w_badUrl
       THEN /\ attemptReconnect(timers)
            /\ UNCHANGED <<w_sock, w_ws>>
       ELSE /\ Made < MaxSockets
            /\ w_sock' = [w_sock EXCEPT ![Made + 1] = "connecting"]
            /\ w_ws' = Made + 1
            /\ w_timers' = timers
            /\ UNCHANGED <<w_attempts, w_maxed>>

\* the client's user calls connect()
Connect ==
  /\ w_calls < MaxConnectCalls
  /\ w_calls' = w_calls + 1
  /\ w_disc' = FALSE
  /\ connect(w_timers)
  /\ UNCHANGED <<w_badUrl, ratesVars, mgrVars, cvVars, histVars, scanVars, descVars,
                 volVars, rateVars, respVars, confVars, alertVars>>

\* a sequence without its i-th element
Without(seq, i) == [j \in 1..(Len(seq) - 1) |-> IF j < i THEN seq[j] ELSE seq[j + 1]]

\* a reconnect timer fires: `() => { this.connect() }` (nothing ever clears one)
ReconnectTimerFires(i) ==
  /\ i \in 1..Len(w_timers)
  /\ connect(Without(w_timers, i))
  /\ UNCHANGED <<w_badUrl, w_calls, w_disc, ratesVars, mgrVars, cvVars, histVars,
                 scanVars, descVars, volVars, rateVars, respVars, confVars, alertVars>>

\* the 'open' event of a WebSocket: reconnectAttempts = 0, emit 'connected'
SocketOpens(s) ==
  /\ w_sock[s] = "connecting"
  /\ w_sock' = [w_sock EXCEPT ![s] = "open"]
  /\ w_attempts' = 0
  /\ UNCHANGED <<w_badUrl, w_ws, w_timers, w_maxed, w_calls, w_connects, w_disc,
                 ratesVars, mgrVars, cvVars, histVars, scanVars, descVars, volVars,
                 rateVars, respVars, confVars, alertVars>>

\* the 'close' event of a WebSocket (the connection failed, was lost, was closed
\* by the server or by ws.close()): emit 'disconnected', attemptReconnect()
SocketCloses(s) ==
  /\ w_sock[s] \in {"connecting", "open", "closing"}
  /\ w_sock' = [w_sock EXCEPT ![s] = "closed"]
  /\ attemptReconnect(w_timers)
  /\ UNCHANGED <<w_badUrl, w_ws, w_calls, w_connects, w_disc, ratesVars, mgrVars,
                 cvVars, histVars, scanVars, descVars, volVars, rateVars, respVars,
                 confVars, alertVars>>

\* the client's user calls disconnect(): `if (this.ws) { this.ws.close();
\* this.ws = undefined }`; close() starts the closing of a socket that is
\* connecting or open and does nothing to one that is closing or closed
Disconnect ==
  /\ ~w_disc
  /\ w_calls > 0
  /\ w_disc' = TRUE
  /\ IF w_ws # NoSocket
       THEN /\ w_sock' = [w_sock EXCEPT ![w_ws] =
                 IF @ \in {"connecting", "open"} THEN "closing" ELSE @]
            /\ w_ws' = NoSocket
       ELSE UNCHANGED <<w_sock, w_ws>>
  /\ UNCHANGED <<w_badUrl, w_attempts, w_timers, w_maxed, w_calls, w_connects,
                 ratesVars, mgrVars, cvVars, histVars, scanVars, descVars, volVars,
                 rateVars, respVars, confVars, alertVars>>

\* a client on which connect() was never called
InitWs ==
  /\ w_badUrl = FALSE
  /\ w_sock = [s \in Sockets |-> "none"]
  /\ w_ws = NoSocket
  /\ w_attempts = 0
  /\ w_timers = <<>>
  /\ w_maxed = 0
  /\ w_calls = 0
  /\ w_connects = 0
  /\ w_disc = FALSE

(* ---------------- localization.ts: ConfigManager ------------------- *)
ConfigManagers == 1..NumConfigs
\* everything but the configuration
restOfConf == <<ratesVars, mgrVars, cvVars, histVars, scanVars, descVars, volVars,
                rateVars, respVars, wsVars, alertVars>>

\* notifications.email when the object has no such key
NoEmail == "undefined"
\* The objects the literal DEFAULT_CONFIG refers to, as written in the source: the
\* defaultCurrencies array, the notifications object and the providers object.
DefaultObjects ==
  [defaultCurrencies |-> <<"USD", "EUR", "GBP", "KES", "ETB">>,
   notifications |-> [email |-> NoEmail],
   providers |-> [primary |-> "exchangerate-host",
                  fallbacks |-> <<"fixer", "currencyapi">>]]
\* `{ ...DEFAULT_CONFIG }`: a new object with DEFAULT_CONFIG's language and
\* locale and the very objects DEFAULT_CONFIG refers to. `own` tells whether
\* this.config.defaultCurrencies has since been given an array of its own; no
\* setter replaces this.config.notifications or this.config.providers.
SpreadDefault ==
  [language |-> "en", locale |-> "en-US", own |-> FALSE, defaultCurrencies |-> <<>>]

\* this.config.defaultCurrencies of instance i
CurrenciesOf(i) ==
  IF k_config[i].own THEN k_config[i].defaultCurrencies ELSE k_default.defaultCurrencies
\* the configuration instance i has: getConfig()
getConfig(i) ==
  [language |-> k_config[i].language, locale |-> k_config[i].locale,
   defaultCurrencies |-> CurrenciesOf(i),
   notifications |-> k_default.notifications,
   providers |-> k_default.providers]
\* array.includes(x)
Includes(seq, x) == \E j \in 1..Len(seq) : seq[j] = x

\* setLanguage(language)
SetLanguage(i, l) ==
  /\ k_config' = [k_config EXCEPT ![i] =
       [@ EXCEPT !.language = l,
                 !.locale = IF l = "so" THEN "so-SO"
                            ELSE IF l = "ar" THEN "ar-SA" ELSE "en-US"]]
  /\ UNCHANGED <<k_default, restOfConf>>

\* addDefaultCurrency(currency): push on the array this.config refers to
AddDefaultCurrency(i, c) ==
  /\ IF Includes(CurrenciesOf(i), c) THEN UNCHANGED <<k_config, k_default>>
     ELSE IF k_config[i].own
       THEN /\ k_config' = [k_config EXCEPT ![i] =
                 [@ EXCEPT !.defaultCurrencies = Append(@, c)]]
            /\ UNCHANGED k_default
       ELSE /\ k_default' = [k_default EXCEPT !.defaultCurrencies = Append(@, c)]
            /\ UNCHANGED k_config
  /\ UNCHANGED restOfConf

\* removeDefaultCurrency(currency): this.config.defaultCurrencies = a filtered copy
RemoveDefaultCurrency(i, c) ==
  /\ k_config' = [k_config EXCEPT ![i] =
       [@ EXCEPT !.own = TRUE,
                 !.defaultCurrencies = SelectSeq(CurrenciesOf(i), LAMBDA x : x # c)]]
  /\ UNCHANGED <<k_default, restOfConf>>

\* setEmailNotification(email): this.config.notifications.email = email
SetEmailNotification(e) ==
  /\ k_default' = [k_default EXCEPT !.notifications.email = e]
  /\ UNCHANGED <<k_config, restOfConf>>

\* ConfigManager.setPrimaryProvider(provider): this.config.providers.primary = provider
ConfigSetPrimaryProvider(p) ==
  /\ k_default' = [k_default EXCEPT !.providers.primary = p]
  /\ UNCHANGED <<k_config, restOfConf>>

\* ConfigManager.addFallbackProvider(provider): push unless included
ConfigAddFallbackProvider(p) ==
  /\ IF Includes(k_default.providers.fallbacks, p) THEN UNCHANGED k_default
     ELSE k_default' = [k_default EXCEPT !.providers.fallbacks = Append(@, p)]
  /\ UNCHANGED <<k_config, restOfConf>>

\* resetToDefaults(): this.config = { ...DEFAULT_CONFIG }
ResetToDefaults(i) ==
  /\ k_config' = [k_config EXCEPT ![i] = SpreadDefault]
  /\ UNCHANGED <<k_default, restOfConf>>

\* the module is loaded and the ConfigManagers constructed
InitConf ==
  /\ k_default = DefaultObjects
  /\ k_config = [i \in ConfigManagers |-> SpreadDefault]

(* ---------------------- alerts.ts: AlertManager ---------------------- *)
AlertCalls == 1..NumAlertCalls
\* everything but the alerts
restOfAlerts == <<ratesVars, mgrVars, cvVars, histVars, scanVars, descVars, volVars,
                  rateVars, respVars, wsVars, confVars>>

\* a RateAlert, by its id and its `active`
Alert(id, active) == [id |-> id, active |-> active]
\* the alert saved before the program starts, and the id generateId() gives call c
SavedId == "A0"
NewId(c) == IF c = 1 THEN "A1" ELSE "A2"
AlertsFileOf(state, alerts) == [state |-> state, val |-> alerts]
\* the files found at alertsPath when the program starts
InitialAlertFiles ==
  {AlertsFileOf("missing", <<>>), AlertsFileOf("json", <<>>),
   AlertsFileOf("json", <<Alert(SavedId, TRUE)>>)}
\* an alert list written over a longer text that another writer put in the file
\* meanwhile: JSON.parse rejects it
AOverwritten == AlertsFileOf("unparsable", <<>>)

NoAlertCall ==
  [pc |-> "idle", op |-> "none", id |-> "none", pending |-> <<>>, writes |-> <<>>,
   after |-> {}]

\* getAlerts: `alerts || []` of tryReadJSON
getAlerts(file) == IF file.state = "json" THEN file.val ELSE <<>>

\* createAlert, updateAlert(id, {active: false}) or deleteAlert(id) up to
\* `await this.getAlerts()`
StartAlertCall(c, op, id) ==
  /\ a_call[c].pc = "idle"
  /\ IF c = 1 THEN TRUE ELSE a_call[c - 1].pc # "idle"
  /\ a_call' = [a_call EXCEPT ![c] =
       [@ EXCEPT !.pc = "read", !.op = op, !.id = id,
                 !.after = {d \in AlertCalls : a_call[d].pc \in {"done", "failed"}}]]
  /\ UNCHANGED <<a_file, restOfAlerts>>

\* alerts.findIndex(alert => alert.id === id) !== -1
HasAlert(alerts, id) == \E j \in 1..Len(alerts) : alerts[j].id = id

\* the list a call hands to saveAlerts, from the list it read
Changed(alerts, op, id) ==
  IF op = "create" THEN Append(alerts, Alert(id, TRUE))
  ELSE IF op = "update"
    THEN [j \in 1..Len(alerts) |->
            IF j = (CHOOSE k \in 1..Len(alerts) :
                      alerts[k].id = id /\ \A l \in 1..(k - 1) : alerts[l].id # id)
              THEN Alert(id, FALSE) ELSE alerts[j]]
  ELSE SelectSeq(alerts, LAMBDA a : a.id # id)

\* the file was read: the call changes the list it read and goes on to saveAlerts
\* (tryWriteJSON up to its first await), or throws `Alert with id ... not found`
AlertsReadDone(c) ==
  /\ a_call[c].pc = "read"
  /\ LET alerts == getAlerts(a_file)
     IN a_call' = [a_call EXCEPT ![c] =
          IF a_call[c].op # "create" /\ ~HasAlert(alerts, a_call[c].id)
            THEN [@ EXCEPT !.pc = "failed"]
            ELSE [@ EXCEPT !.pc = "open",
                           !.pending = Changed(alerts, a_call[c].op, a_call[c].id)]]
  /\ UNCHANGED <<a_file, restOfAlerts>>

\* tryWriteJSON: fs.mkdir, then fs.writeFile opens the file, which truncates it;
\* a failure of either is swallowed and the call returns
AlertsOpenFile(c) ==
  /\ a_call[c].pc = "open"
  /\ \/ /\ a_file' = AlertsFileOf("unparsable", <<>>)
        /\ a_call' = [a_call EXCEPT ![c] =
             [@ EXCEPT !.pc = "write", !.writes = Append(@, "open")]]
     \/ /\ a_call' = [a_call EXCEPT ![c] =
             [@ EXCEPT !.pc = "done", !.writes = Append(@, "failed")]]
        /\ UNCHANGED a_file
  /\ UNCHANGED restOfAlerts

\* tryWriteJSON: fs.writeFile writes the text from offset 0 and settles (over a
\* longer text written meanwhile by another fs.writeFile, that text's tail stays)
AlertsWriteData(c) ==
  /\ a_call[c].pc = "write"
  /\ \/ /\ a_file' = AlertsFileOf("json", a_call[c].pending)
        /\ a_call' = [a_call EXCEPT ![c] =
             [@ EXCEPT !.pc = "done", !.writes = Append(@, "data")]]
     \/ /\ a_file.state = "json"
        /\ a_file' = AOverwritten
        /\ a_call' = [a_call EXCEPT ![c] =
             [@ EXCEPT !.pc = "done", !.writes = Append(@, "data")]]
     \/ /\ a_call' = [a_call EXCEPT ![c] =
             [@ EXCEPT !.pc = "done", !.writes = Append(@, "failed")]]
        /\ UNCHANGED a_file
  /\ UNCHANGED restOfAlerts

\* no AlertManager call made, no alerts file
InitAlerts ==
  /\ a_file = AlertsFileOf("missing", <<>>)
  /\ a_call = [c \in AlertCalls |-> NoAlertCall]

InitLater == InitWs /\ InitConf /\ InitAlerts

\* no getRateHistory made; the process runs in Mogadishu
InitScan ==
  /\ s_tz = TimeZone(3, 0, 0)
  /\ s_scan = NoScan

\* exchangerate.host declares no priority, fixer.io priority 2
InitDesc == m_priority = [p \in Providers |-> IF p = "P1" THEN NoPriority ELSE 2]

InitMore ==
  /\ InitScan
  /\ InitDesc
  /\ InitVol
  /\ InitRate
  /\ InitResp
  /\ InitLater

InitRates ==
  /\ now = 0
  /\ memoryCache = NullVal
  /\ pc = [c \in Calls |-> "idle"]
  /\ opts = [c \in Calls |-> DefaultOpts]
  /\ cached = [c \in Calls |-> NullVal]
  /\ snap = [c \in Calls |-> NullVal]
  /\ result = [c \in Calls |-> "none"]
  /\ provCalls = [c \in Calls |-> 0]
  /\ writes = [c \in Calls |-> <<>>]
  /\ fetchOutcome = [c \in Calls |-> "none"]
  /\ doneBefore = [c \in Calls |-> {}]
  /\ callsTo = [p \in Providers |-> 0]
  /\ failsOf = [p \in Providers |-> 0]
  /\ otherWrites = 0

InitRun ==
  /\ m_pc = "idle"
  /\ m_providers = <<>>
  /\ m_idx = 0
  /\ m_attempt = 0
  /\ m_lastError = NoErr
  /\ m_outcome = NoOutcome
  /\ m_delay = 0
  /\ m_abandoned = {}
  /\ m_late = {}
  /\ m_timer = {}
  /\ m_log = <<>>

\* The rate service, beside a provider manager configured as
\* [P1, P2] with maxRetries = 2 (which getRates never consults).
Init ==
  /\ InitRates
  /\ disk \in InitialFiles
  /\ m_primary = "P1"
  /\ m_fallbacks = <<"P2">>
  /\ m_maxRetries = 2
  /\ InitRun
  /\ InitConvert
  /\ InitHist
  /\ InitMore

DoGetRates ==
  \E c \in Calls, o \in OptionSets :
    GetRates(c, o) /\ UNCHANGED <<cvVars, histVars, moreVars>>
DoReadFileDone == \E c \in Calls : ReadFileDone(c)
DoResume == \E c \in Calls : Resume(c)
DoProviderResolves == \E c \in Calls : ProviderResolves(c)
DoProviderRejects == \E c \in Calls : ProviderRejects(c)
DoOpenFile == \E c \in Calls : OpenFile(c)
DoWriteData == \E c \in Calls : WriteData(c)

Next ==
  \/ DoGetRates
  \/ DoReadFileDone
  \/ DoResume
  \/ DoProviderResolves
  \/ DoProviderRejects
  \/ DoOpenFile
  \/ DoWriteData
  \/ OtherProcessWrites
  \/ Tick

Spec == Init /\ [][Next]_vars

\* The event loop runs every continuation whose await has settled; file I/O
\* settles. Nothing makes a remote provider answer.
Fairness ==
  /\ WF_vars(DoReadFileDone)
  /\ WF_vars(DoResume)
  /\ WF_vars(DoOpenFile)
  /\ WF_vars(DoWriteData)

FairSpec == Spec /\ Fairness

\* fallback lists of at most MaxFallbacks providers
RECURSIVE SeqsUpTo(_)
SeqsUpTo(n) ==
  IF n = 0 THEN {<<>>}
  ELSE SeqsUpTo(n - 1) \cup
       {Append(q, p) : q \in {r \in SeqsUpTo(n - 1) : Len(r) = n - 1}, p \in Providers}

\* The provider manager alone, under any configuration.
InitManager ==
  /\ InitRates
  /\ disk = NoFile
  /\ m_primary \in Providers
  /\ m_fallbacks \in SeqsUpTo(MaxFallbacks)
  /\ m_maxRetries \in 0..MaxRetriesBound
  /\ InitRun
  /\ InitConvert
  /\ InitHist
  /\ InitMore

NextManager ==
  \/ FetchRates
  \/ ProviderOk
  \/ ProviderErr
  \/ TimerFires
  \/ BackoffElapsed
  \/ DoLateSettle

SpecManager == InitManager /\ [][NextManager]_vars

\* The provider manager with timers that fire: the timeout timer of an attempt
\* whose provider call has not settled, and the backoff timer. Nothing makes a
\* provider answer.
NextTimed ==
  \/ NextManager
  \/ TimerFiresUntracked

TimersFire ==
  /\ WF_vars(TimerFires \/ TimerFiresUntracked)
  /\ WF_vars(BackoffElapsed)

SpecTimed == InitManager /\ [][NextTimed]_vars /\ TimersFire

\* the options conversions are made with
ConvertOptionSets ==
  {o \in OptionSets : o.ttlMs = 1 /\ o.persist /\ o.provider = "P1"}

DoConvertSame ==
  /\ NoneInFlight
  /\ \E amount \in Amounts, cur \in Currencies : ConvertSame(amount, cur)
DoConvert ==
  /\ NoneInFlight
  /\ cv_same = NoSame
  /\ \E c \in Calls, amount \in AmountsAtHand, from, to \in Currencies,
        o \in ConvertOptionSets :
       Convert(c, amount, from, to, o)
DoConvertReturns == \E c \in Calls : ConvertReturns(c)

\* A caller that converts, one conversion after the other.
NextConvert ==
  \/ DoConvertSame
  \/ DoConvert
  \/ DoReadFileDone
  \/ DoResume
  \/ DoProviderResolves
  \/ DoProviderRejects
  \/ DoOpenFile
  \/ DoWriteData
  \/ DoConvertReturns
  \/ Tick

InitConverter ==
  /\ Init
  /\ disk \in {NoFile, Stringify(Obj(NoAt, Undefined)), Stringify(Obj(0, "Told"))}

SpecConvert == InitConverter /\ [][NextConvert]_vars

DoGetHistoricalRates ==
  \E c \in HistCalls, d \in Dates : GetHistoricalRates(c, d)
DoHReadDone == \E c \in HistCalls : HReadDone(c)
DoHProviderResolves == \E c \in HistCalls : HProviderResolves(c)
DoHProviderRejects == \E c \in HistCalls : HProviderRejects(c)
DoHRereadDone == \E c \in HistCalls : HRereadDone(c)
DoHOpenFile == \E c \in HistCalls : HOpenFile(c)
DoHWriteData == \E c \in HistCalls : HWriteData(c)

\* The historical rate service, under any provider configuration and any cache
\* file.
InitHistorical ==
  /\ InitRates
  /\ disk = NoFile
  /\ m_primary \in Providers
  /\ m_fallbacks \in SeqsUpTo(MaxFallbacks)
  /\ m_maxRetries = 2
  /\ InitRun
  /\ InitConvert
  /\ m_capable \in SUBSET Providers
  /\ h_today = FirstDay
  /\ h_file \in InitialHistFiles
  /\ h_call = [c \in HistCalls |-> NoHistCall]
  /\ InitMore

NextHistorical ==
  \/ DoGetHistoricalRates
  \/ DoHReadDone
  \/ DoHProviderResolves
  \/ DoHProviderRejects
  \/ DoHRereadDone
  \/ DoHOpenFile
  \/ DoHWriteData
  \/ NextDay

SpecHistorical == InitHistorical /\ [][NextHistorical]_vars

\* The manager's provider list under addFallbackProvider and setPrimaryProvider,
\* for providers of any priorities.
InitFallbacks ==
  /\ InitRates
  /\ disk = NoFile
  /\ m_primary \in Providers
  /\ m_fallbacks \in SeqsUpTo(MaxFallbacks)
  /\ m_maxRetries = 2
  /\ InitRun
  /\ InitConvert
  /\ InitHist
  /\ InitScan
  /\ InitVol
  /\ InitRate
  /\ InitResp
  /\ InitLater
  /\ m_priority \in [Providers -> Priorities]

DoAddFallbackProvider == \E p \in Providers : AddFallbackProvider(p)
DoSetPrimaryProvider == \E p \in Providers : SetPrimaryProvider(p)

NextFallbacks ==
  \/ DoAddFallbackProvider
  \/ DoSetPrimaryProvider

SpecFallbacks == InitFallbacks /\ [][NextFallbacks]_vars

\* A range scan by getRateHistory, in any of the time zones, over any provider
\* configuration with P1 primary and any cache file.
InitHistory ==
  /\ InitRates
  /\ disk = NoFile
  /\ m_primary = "P1"
  /\ m_fallbacks \in SeqsUpTo(MaxFallbacks)
  /\ m_maxRetries = 2
  /\ InitRun
  /\ InitConvert
  /\ m_capable \in SUBSET Providers
  /\ h_today = FirstDay
  /\ h_file \in InitialHistFiles
  /\ h_call = [c \in HistCalls |-> NoHistCall]
  /\ s_tz \in TimeZones
  /\ s_scan = NoScan
  /\ InitDesc
  /\ InitVol
  /\ InitRate
  /\ InitResp
  /\ InitLater

DoGetRateHistory == \E from \in RangeDays, to \in RangeDays : GetRateHistory(from, to)

NextHistory ==
  \/ DoGetRateHistory
  \/ ScanDayResolves
  \/ ScanDayRejects
  \/ DoHReadDone
  \/ DoHProviderResolves
  \/ DoHProviderRejects
  \/ DoHRereadDone
  \/ DoHOpenFile
  \/ DoHWriteData

SpecHistory == InitHistory /\ [][NextHistory]_vars

\* getVolatility over the days before today, under any provider configuration
\* with P1 primary and any cache file.
DoGetVolatility == \E days \in 1..MaxSpan : GetVolatility(days)

NextVolatility ==
  \/ DoGetVolatility
  \/ VolatilityReturns
  \/ ScanDayResolves
  \/ ScanDayRejects
  \/ DoHReadDone
  \/ DoHProviderResolves
  \/ DoHProviderRejects
  \/ DoHRereadDone
  \/ DoHOpenFile
  \/ DoHWriteData

SpecVolatility == InitHistory /\ [][NextVolatility]_vars

\* A caller of getRate and convert that passes any code, supported or not, one
\* call after the other.
CodeAmount == NumOf(100)
DoGetRate ==
  /\ NoneInFlight
  /\ \E c \in Calls, target \in Codes, o \in ConvertOptionSets : GetRate(c, target, o)
DoGetRateReturns == \E c \in Calls : GetRateReturns(c)
DoConvertSameCode ==
  /\ NoneInFlight
  /\ \E cur \in Codes : ConvertSame(CodeAmount, cur)
DoConvertCode ==
  /\ NoneInFlight
  /\ cv_same = NoSame
  /\ \E c \in Calls, from, to \in Codes, o \in ConvertOptionSets :
       Convert(c, CodeAmount, from, to, o)

NextCodes ==
  \/ DoGetRate
  \/ DoGetRateReturns
  \/ DoConvertSameCode
  \/ DoConvertCode
  \/ DoConvertReturns
  \/ DoReadFileDone
  \/ DoResume
  \/ DoProviderResolves
  \/ DoProviderRejects
  \/ DoOpenFile
  \/ DoWriteData
  \/ Tick

SpecCodes == InitConverter /\ [][NextCodes]_vars

\* A built-in provider given any response.
InitProvider ==
  /\ InitRates
  /\ disk = NoFile
  /\ m_primary = "P1"
  /\ m_fallbacks = <<"P2">>
  /\ m_maxRetries = 2
  /\ InitRun
  /\ InitConvert
  /\ InitHist
  /\ InitScan
  /\ InitDesc
  /\ InitVol
  /\ InitRate
  /\ r_provider \in BuiltIns
  /\ r_response \in Responses
  /\ r_result = NotSettled
  /\ InitLater

NextProvider == FetchRatesSOS

SpecProvider == InitProvider /\ [][NextProvider]_vars

\* A RateStreamClient, its user, its sockets and its timers.
InitStream ==
  /\ InitRates
  /\ disk = NoFile
  /\ m_primary = "P1"
  /\ m_fallbacks = <<"P2">>
  /\ m_maxRetries = 2
  /\ InitRun
  /\ InitConvert
  /\ InitHist
  /\ InitScan
  /\ InitDesc
  /\ InitVol
  /\ InitRate
  /\ InitResp
  /\ w_badUrl \in BOOLEAN
  /\ w_sock = [s \in Sockets |-> "none"]
  /\ w_ws = NoSocket
  /\ w_attempts = 0
  /\ w_timers = <<>>
  /\ w_maxed = 0
  /\ w_calls = 0
  /\ w_connects = 0
  /\ w_disc = FALSE
  /\ InitConf
  /\ InitAlerts

DoReconnectTimerFires == \E i \in 1..Len(w_timers) : ReconnectTimerFires(i)
DoSocketOpens == \E s \in Sockets : SocketOpens(s)
DoSocketCloses == \E s \in Sockets : SocketCloses(s)

NextStream ==
  \/ Connect
  \/ DoReconnectTimerFires
  \/ DoSocketOpens
  \/ DoSocketCloses
  \/ Disconnect

SpecStream == InitStream /\ [][NextStream]_vars

\* ConfigManagers under any sequence of setters and resets.
DoSetLanguage == \E i \in ConfigManagers, l \in {"en", "so", "ar"} : SetLanguage(i, l)
DoAddDefaultCurrency ==
  \E i \in ConfigManagers, c \in {"USD", "AED"} : AddDefaultCurrency(i, c)
DoRemoveDefaultCurrency ==
  \E i \in ConfigManagers, c \in {"USD", "AED"} : RemoveDefaultCurrency(i, c)
DoSetEmailNotification == \E e \in {"a@b.so"} : SetEmailNotification(e)
DoConfigSetPrimaryProvider ==
  \E p \in {"exchangerate-host", "fixer"} : ConfigSetPrimaryProvider(p)
DoConfigAddFallbackProvider ==
  \E p \in {"fixer", "custom"} : ConfigAddFallbackProvider(p)
DoResetToDefaults == \E i \in ConfigManagers : ResetToDefaults(i)

NextConfig ==
  \/ DoSetLanguage
  \/ DoAddDefaultCurrency
  \/ DoRemoveDefaultCurrency
  \/ DoSetEmailNotification
  \/ DoConfigSetPrimaryProvider
  \/ DoConfigAddFallbackProvider
  \/ DoResetToDefaults

SpecConfig == InitManager /\ [][NextConfig]_vars

\* AlertManager calls over any alerts file.
InitAlertManager ==
  /\ InitRates
  /\ disk = NoFile
  /\ m_primary = "P1"
  /\ m_fallbacks = <<"P2">>
  /\ m_maxRetries = 2
  /\ InitRun
  /\ InitConvert
  /\ InitHist
  /\ InitScan
  /\ InitDesc
  /\ InitVol
  /\ InitRate
  /\ InitResp
  /\ InitWs
  /\ InitConf
  /\ a_file \in InitialAlertFiles
  /\ a_call = [c \in AlertCalls |-> NoAlertCall]

DoCreateAlert == \E c \in AlertCalls : StartAlertCall(c, "create", NewId(c))
DoUpdateAlert == \E c \in AlertCalls : StartAlertCall(c, "update", SavedId)
DoDeleteAlert == \E c \in AlertCalls : StartAlertCall(c, "delete", SavedId)
DoAlertsReadDone == \E c \in AlertCalls : AlertsReadDone(c)
DoAlertsOpenFile == \E c \in AlertCalls : AlertsOpenFile(c)
DoAlertsWriteData == \E c \in AlertCalls : AlertsWriteData(c)

NextAlerts ==
  \/ DoCreateAlert
  \/ DoUpdateAlert
  \/ DoDeleteAlert
  \/ DoAlertsReadDone
  \/ DoAlertsOpenFile
  \/ DoAlertsWriteData

SpecAlerts == InitAlertManager /\ [][NextAlerts]_vars

(* ---------------------------------------------------------------------- *)
(*                                 Claims                                 *)
(* ---------------------------------------------------------------------- *)

\* a {capturedAt, rates} snapshot
IsSnapshot(v) == v.kind = "object" /\ v.at \in Nat /\ v.rates \in Tables
\* the step on which call c leaves its freshness test
Tests(c) == pc[c] = "resume" /\ pc'[c] # "resume"
\* the step on which call c returns
Returns(c) == pc[c] # "done" /\ pc'[c] = "done"

(* C1: whenever the cache read yields a snapshot whose age, now - capturedAt, is
   strictly below ttl, getRates returns that snapshot's table on the spot, having
   invoked no provider and written no cache tier; at an age equal to (or above)
   ttl the snapshot is stale and an online call goes on to the provider. *)
C1_FreshCacheServed ==
  [][\A c \in Calls :
       (Tests(c) /\ IsSnapshot(cached[c])) =>
         IF now - cached[c].at < opts[c].ttlMs
           THEN /\ pc'[c] = "done"
                /\ result'[c] = cached[c].rates
                /\ provCalls'[c] = 0 /\ callsTo' = callsTo
                /\ writes'[c] = <<>>
                /\ memoryCache' = memoryCache /\ disk' = disk
           ELSE ~opts[c].offline => (pc'[c] = "fetching" /\ provCalls'[c] = 1)]_vars

\* an online call has returned a fresh snapshot's table without a fetch
C1_Witness ==
  \E c \in Calls :
    /\ pc[c] = "done" /\ ~opts[c].offline
    /\ IsSnapshot(cached[c]) /\ result[c] = cached[c].rates
    /\ provCalls[c] = 0 /\ writes[c] = <<>>

(* C2: an online getRates without a fresh cache whose provider fetch fails returns
   the stale cached table if a snapshot was read and the seed table otherwise, and
   writes no cache tier. *)
C2_FetchFailureFallback ==
  \A c \in Calls :
    (pc[c] = "done" /\ ~opts[c].offline /\ fetchOutcome[c] = "error") =>
      /\ result[c] = IF IsSnapshot(cached[c]) THEN cached[c].rates ELSE Seed
      /\ writes[c] = <<>>

(* C3: an offline getRates invokes no provider and writes no cache tier; it
   returns the cached table whenever a snapshot was read, however old, and the
   seed table when there is no snapshot. *)
C3_OfflineNeverFetches ==
  \A c \in Calls :
    (pc[c] = "done" /\ opts[c].offline) =>
      /\ provCalls[c] = 0
      /\ writes[c] = <<>>
      /\ result[c] = IF IsSnapshot(cached[c]) THEN cached[c].rates ELSE Seed

\* the cache writes of a call whose fetch succeeded, by its options and its place
C4_WritesAllowed(c) ==
  IF ~opts[c].persist THEN {<<"mem">>}
  ELSE IF pc[c] = "open" THEN {<<"mem">>}
  ELSE IF pc[c] = "write" THEN {<<"mem", "open">>}
  ELSE {<<"mem", "failed">>, <<"mem", "open", "failed">>, <<"mem", "open", "data">>}

\* what holds of a call from the moment its fetch succeeded
C4_Fetched ==
  \A c \in Calls :
    fetchOutcome[c] = "ok" =>
      /\ ~opts[c].offline
      /\ snap[c].rates = TableOf(opts[c].provider)
      /\ IsSnapshot(snap[c])
      /\ writes[c] \in C4_WritesAllowed(c)
      /\ pc[c] = "done" => result[c] = snap[c].rates

\* the steps of a successful fetch, and of the getRates call that follows it
C4_Steps ==
  \A c \in Calls :
    \* the fetch resolves: the snapshot {at = now, rates = live} replaces the
    \* in-process snapshot
    /\ (fetchOutcome[c] = "none" /\ fetchOutcome'[c] = "ok") =>
         /\ snap'[c] = Obj(now, TableOf(opts[c].provider))
         /\ memoryCache' = snap'[c]
    \* the text written to the durable path is that snapshot
    \* (over a text another writer put there meanwhile, with that text's tail)
    /\ (Len(writes'[c]) = 3 /\ writes'[c][3] = "data" /\ Len(writes[c]) = 2) =>
         IF disk.state = "json"
           THEN disk' \in {Stringify(snap[c]), Overwritten}
           ELSE disk' = Stringify(snap[c])
    \* a later call testing freshness within ttl of that snapshot is served from
    \* the cache, with a table fetched no earlier
    /\ \A d \in Calls :
         (/\ Tests(d) /\ c \in doneBefore[d] /\ fetchOutcome[c] = "ok"
          /\ now - snap[c].at < opts[d].ttlMs) =>
           /\ pc'[d] = "done" /\ provCalls'[d] = 0
           /\ IsSnapshot(cached[d]) /\ cached[d].at >= snap[c].at
           /\ result'[d] = cached[d].rates

(* C4: an online getRates with a stale or absent cache whose fetch succeeds
   returns the fetched table; before it returns, the snapshot {capturedAt = now,
   rates = fetched table} has replaced the in-process snapshot and its text has
   been handed to the durable path (when one is configured), and a getRates call
   made afterwards within ttl is served from the cache. *)
C4_FetchSuccessCached == []C4_Fetched /\ [][C4_Steps]_vars

\* a call returned a fetched table over a stale snapshot, wrote both tiers, and
\* the next call was then served from the cache
C4_Witness ==
  \E c, d \in Calls :
    /\ pc[c] = "done" /\ fetchOutcome[c] = "ok"
    /\ IsSnapshot(cached[c]) /\ result[c] # cached[c].rates
    /\ writes[c] = <<"mem", "open", "data">>
    /\ pc[d] = "done" /\ c \in doneBefore[d] /\ provCalls[d] = 0
    /\ result[d] = result[c]

(* C5: getRates always returns a usable rate table, whatever the cache state
   (absent, unreadable or malformed file, stale or fresh snapshot), the provider
   outcome and the outcome of the durable write. *)
C5_AlwaysUsableTable ==
  \A c \in Calls : pc[c] = "done" => result[c] \in Tables

(* C6: with the provider chain [P1 always failing, P2 returning T] and
   maxRetries = 2, an online getRates without a fresh cache returns T after
   exactly 2 failed attempts on P1 and exactly one attempt on P2. *)
C6_ChainResolvesMiss ==
  \A c \in Calls :
    (/\ pc[c] = "done" /\ ~opts[c].offline /\ fetchOutcome[c] # "none"
     /\ \A d \in Calls \ {c} : pc[d] = "idle"
     /\ m_primary = "P1" /\ m_fallbacks = <<"P2">> /\ m_maxRetries = 2
     /\ opts[c].provider = m_primary
     /\ failsOf["P1"] = callsTo["P1"] /\ failsOf["P2"] = 0) =>
      /\ result[c] = TableOf("P2")
      /\ callsTo["P1"] = 2
      /\ callsTo["P2"] = 1

\* positions of the log
C_Pos == 1..Len(m_log)
C_Is(j, ev, i, k) == m_log[j].ev = ev /\ m_log[j].i = i /\ m_log[j].k = k
\* failed attempts on the i-th provider
C_FailCount(i) == Cardinality({j \in C_Pos : m_log[j].ev = "fail" /\ m_log[j].i = i})
\* the last attempt started before position j (0: none)
C_PrevAttempt(j) ==
  LET before == {a \in 1..(j - 1) : m_log[a].ev = "attempt"}
  IN IF before = {} THEN 0 ELSE CHOOSE a \in before : \A b \in before : b <= a

(* C7: fetchRates goes through [primary, ...fallbacks] one attempt at a time and
   in list order: an attempt starts only after the previous attempt has failed or
   timed out, provider i+1 is attempted only after provider i has failed
   maxRetries attempts, and the first successful attempt's table is returned
   with no further attempt. *)
C7_SequentialInOrder ==
  /\ m_pc # "idle" => m_providers = <<m_primary>> \o m_fallbacks
  /\ \A j \in C_Pos :
       m_log[j].ev = "attempt" =>
         /\ m_log[j].i \in 1..Len(m_providers)
         /\ m_log[j].k \in 1..m_maxRetries
         /\ LET a == C_PrevAttempt(j)
            IN IF a = 0 THEN C_Is(j, "attempt", 1, 1)
               ELSE /\ \E f \in (a + 1)..(j - 1) :
                         C_Is(f, "fail", m_log[a].i, m_log[a].k)
                    /\ \/ C_Is(j, "attempt", m_log[a].i, m_log[a].k + 1)
                       \/ /\ C_Is(j, "attempt", m_log[a].i + 1, 1)
                          /\ m_log[a].k = m_maxRetries
         /\ \A i \in 1..(m_log[j].i - 1) : C_FailCount(i) = m_maxRetries
  /\ \A j \in C_Pos :
       m_log[j].ev \in {"ok", "fail"} =>
         /\ j > 1
         /\ C_Is(j - 1, "attempt", m_log[j].i, m_log[j].k)
  /\ \A j \in C_Pos :
       m_log[j].ev = "ok" =>
         /\ j = Len(m_log)
         /\ m_pc = "success"
         /\ m_outcome = Returned(TableOf(m_providers[m_log[j].i]))
  /\ m_pc = "success" => (m_log # <<>> /\ m_log[Len(m_log)].ev = "ok")
  /\ m_pc = "attempting" <=>
       (m_log # <<>> /\ m_log[Len(m_log)].ev = "attempt")

\* the second provider answered after the first failed all of several attempts
C7_Witness ==
  /\ m_pc = "success" /\ m_idx = 2 /\ m_maxRetries >= 2
  /\ C_FailCount(1) = m_maxRetries
  /\ m_outcome.table = TableOf(m_providers[2])

(* C8: a provider that fails its first N-1 attempts and succeeds on attempt N
   yields success after exactly N-1 backoff delays; the delay after failed
   attempt k is 2^(k-1) seconds and precedes attempt k+1 on the same provider;
   no attempt is made on the next provider. *)
C8_RetryBackoff ==
  /\ \A j \in C_Pos :
       m_log[j].ev = "delay" =>
         /\ m_log[j].ms = (2 ^ (m_log[j].k - 1)) * 1000
         /\ j > 1 /\ C_Is(j - 1, "fail", m_log[j].i, m_log[j].k)
         /\ IF j < Len(m_log)
              THEN C_Is(j + 1, "attempt", m_log[j].i, m_log[j].k + 1)
              ELSE m_pc = "backoff" /\ m_delay = m_log[j].ms
  /\ m_pc = "success" =>
       LET i == m_log[Len(m_log)].i
           n == m_log[Len(m_log)].k
           delays == {j \in C_Pos : m_log[j].ev = "delay" /\ m_log[j].i = i}
       IN /\ Cardinality(delays) = n - 1
          /\ \A k \in 1..(n - 1) : \E j \in delays : m_log[j].k = k
          /\ C_FailCount(i) = n - 1
          /\ \A j \in C_Pos : m_log[j].i <= i

\* a provider answered on its third attempt, after delays of 1 s and 2 s
C8_Witness ==
  /\ m_pc = "success" /\ m_attempt = 3
  /\ \E j \in C_Pos : m_log[j].ev = "delay" /\ m_log[j].i = m_idx /\ m_log[j].ms = 2000

(* C9: fetchRates fails if and only if every provider of the list has failed all
   maxRetries attempts; the failure is the all-providers-failed error and it
   carries the error of the last failed attempt, the final attempt on the last
   provider. *)
C9_FailsIffAllExhausted ==
  /\ m_pc # "idle" =>
       (m_pc = "failed" <=>
          \A i \in 1..Len(m_providers) : C_FailCount(i) = m_maxRetries)
  /\ m_outcome.status = "error" <=> m_pc = "failed"
  /\ (m_pc = "failed" /\ m_log # <<>>) =>
       /\ C_Is(Len(m_log), "fail", Len(m_providers), m_maxRetries)
       /\ m_outcome = AllProvidersFailed(m_log[Len(m_log)].err)
       /\ m_outcome.last = m_log[Len(m_log)].err

\* two providers were exhausted, and the last error is not the first one
C9_Witness ==
  /\ m_pc = "failed" /\ Len(m_providers) = 2 /\ m_maxRetries >= 2
  /\ m_log[2].ev = "fail" /\ m_log[2].err # m_outcome.last

(* C10: an online getRates call whose provider call never settles still returns
   eventually (with the stale cache or the seed table). *)
C10_HangingProviderReturns ==
  \A c \in Calls : (pc[c] = "fetching") ~> (pc[c] = "done")

\* the provider calls whose timer fired before they settled
C11_TimedOut == m_abandoned \cup m_late

\* what holds of the timers, the timed-out attempts and the result
C11_State ==
  \* one timer is armed while an attempt is awaited, and none otherwise
  /\ m_timer = IF m_pc = "attempting" THEN {<<m_idx, m_attempt>>} ELSE {}
  /\ m_timer \cap C11_TimedOut = {}
  \* a timed-out attempt is a failed attempt, and the run goes on as after any
  \* failure: a backoff delay, the next provider, or the final error
  /\ \A call \in C11_TimedOut :
       \E j \in C_Pos :
         /\ C_Is(j, "fail", call[1], call[2])
         /\ m_log[j].err = TimeoutError(m_providers[call[1]])
         /\ C_Is(j - 1, "attempt", call[1], call[2])
         /\ IF call[2] < m_maxRetries
              THEN C_Is(j + 1, "delay", call[1], call[2])
              ELSE IF call[1] < Len(m_providers)
                THEN C_Is(j + 1, "attempt", call[1] + 1, 1)
                ELSE j = Len(m_log) /\ m_pc = "failed"
  /\ \A j \in C_Pos :
       (m_log[j].ev = "fail" /\ m_log[j].err.kind = "timeout") =>
         <<m_log[j].i, m_log[j].k>> \in C11_TimedOut
  \* an attempt that settled in time was not timed out as well
  /\ \A j \in C_Pos :
       (m_log[j].ev = "ok" \/ (m_log[j].ev = "fail" /\ m_log[j].err.kind = "provider")) =>
         <<m_log[j].i, m_log[j].k>> \notin C11_TimedOut
  \* the table returned is the answer of the attempt that was being awaited
  /\ m_pc = "success" =>
       /\ <<m_idx, m_attempt>> \notin C11_TimedOut
       /\ m_outcome = Returned(TableOf(m_providers[m_idx]))

\* the steps on which a provider call settles
C11_Steps ==
  \* a late response changes nothing of the run
  /\ m_late' # m_late =>
       UNCHANGED <<m_pc, m_idx, m_attempt, m_lastError, m_outcome, m_delay,
                   m_timer, m_log>>
  \* a response in time cancels the timer and leaves no call in flight
  /\ (m_pc = "attempting" /\ m_abandoned' = m_abandoned /\ m_pc' # "attempting") =>
       /\ <<m_idx, m_attempt>> \notin m_timer'
       /\ m_late' = m_late

(* C11: in ProviderManager an attempt whose provider call has not settled when
   the timer fires counts as a failed attempt, followed by the backoff or the next
   attempt; the response of that abandoned call arriving later is discarded: it
   is never returned as the result and never taken as the result of a later
   attempt; a call that settles before the timer cancels the timer. *)
C11_TimeoutDiscardsLate == []C11_State /\ [][C11_Steps]_vars

\* the response of a timed-out attempt arrived, and a later attempt on the same
\* provider returned its own answer
C11_Witness ==
  /\ m_pc = "success"
  /\ \E call \in m_late : call[1] = m_idx /\ call[2] < m_attempt

\* provider.fetchRatesSOS() invocations of all getRates calls
C12_Fetches == callsTo["P1"] + callsTo["P2"]

(* C12: starting from an empty cache with a succeeding provider, two sequential
   getRates calls, the second within ttl of the first, return identical tables,
   and exactly one provider fetch occurs across both: the second call invokes no
   provider. *)
C12_Idempotence ==
  [][\A c, d \in Calls :
       (/\ Tests(d) /\ c \in doneBefore[d]
        /\ \A e \in Calls \ {c, d} : pc[e] = "idle"
        /\ cached[c] = NullVal /\ fetchOutcome[c] = "ok"
        /\ now - snap[c].at < opts[d].ttlMs) =>
         /\ pc'[d] = "done"
         /\ result[c] = TableOf(opts[c].provider)
         /\ result'[d] = result[c]
         /\ provCalls[c] = 1 /\ provCalls'[d] = 0
         /\ C12_Fetches = 1 /\ C12_Fetches' = 1]_vars

\* the second of two online calls, configured with another provider, returned the
\* first call's table, and one fetch was made in all
C12_Witness ==
  \E c, d \in Calls :
    /\ pc[c] = "done" /\ pc[d] = "done" /\ c \in doneBefore[d]
    /\ cached[c] = NullVal /\ fetchOutcome[c] = "ok"
    /\ ~opts[d].offline /\ opts[d].provider # opts[c].provider
    /\ result[d] = result[c] /\ result[c] = TableOf(opts[c].provider)
    /\ provCalls[d] = 0 /\ C12_Fetches = 1

(* C13: the cache read treats every form of bad durable data as a miss: with the
   in-process tier empty and the durable file missing, unreadable or malformed
   (unparsable text, or parsable JSON that is not a snapshot), the read yields
   "no snapshot", and getRates behaves as with no cache: it returns the fetched
   table, or else the seed table. *)
C13_BadDataIsMiss ==
  \A c \in Calls :
    pc[c] \notin {"idle", "readFile"} =>
      /\ IsSnapshot(cached[c]) \/ cached[c] = NullVal
      /\ (pc[c] = "done" /\ ~IsSnapshot(cached[c])) =>
           /\ opts[c].offline => (provCalls[c] = 0 /\ result[c] = Seed)
           /\ ~opts[c].offline =>
                /\ provCalls[c] = 1
                /\ result[c] = IF fetchOutcome[c] = "ok"
                                 THEN TableOf(opts[c].provider) ELSE Seed

\* what holds of the calls that wrote the cache
C14_State ==
  \A c \in Calls :
    /\ writes[c] # <<>> => (writes[c][1] = "mem" /\ fetchOutcome[c] = "ok")
    /\ (pc[c] = "done" /\ writes[c] # <<>>) =>
         /\ result[c] = snap[c].rates
         /\ result[c] = TableOf(opts[c].provider)

\* the steps that write and read the cache
C14_Steps ==
  \* the write replaces the in-process snapshot with the given one
  /\ \A c \in Calls :
       (writes[c] = <<>> /\ writes'[c] # <<>>) =>
         (memoryCache' = snap'[c] /\ snap'[c] = Obj(now, TableOf(opts[c].provider)))
  \* nothing else changes it, so a later read returns the last snapshot written
  /\ memoryCache' # memoryCache =>
       \E c \in Calls : writes[c] = <<>> /\ writes'[c] # <<>>
  /\ \A d \in Calls :
       (pc[d] = "idle" /\ pc'[d] # "idle" /\ memoryCache # NullVal) =>
         (cached'[d] = memoryCache /\ pc'[d] = "resume")
  \* a durable write failure ends the call with the fetched table and undoes
  \* nothing
  /\ \A c \in Calls :
       (writes'[c] # writes[c] /\ writes'[c][Len(writes'[c])] = "failed") =>
         /\ memoryCache' = memoryCache /\ disk' = disk
         /\ pc'[c] = "done" /\ result'[c] = snap[c].rates

(* C14: the cache write always replaces the in-process snapshot with the given
   snapshot, and a later read returns the last snapshot written; a durable write
   failure is swallowed: it does not raise, it does not prevent the in-process
   update, and it does not change the table getRates returns. *)
C14_WriteReplacesAndSwallows == []C14_State /\ [][C14_Steps]_vars

\* a call whose durable write failed returned the fetched table, and the next
\* call read that call's snapshot
C14_Witness ==
  \E c, d \in Calls :
    /\ pc[c] = "done" /\ writes[c] = <<"mem", "open", "failed">>
    /\ result[c] = snap[c].rates /\ IsSnapshot(snap[c])
    /\ c \in doneBefore[d] /\ pc[d] # "idle" /\ cached[d] = snap[c]

(* C15: the cache read prefers the in-process tier: whenever the in-process tier
   holds a snapshot the read returns it without consulting the durable file, even
   when the durable file holds a more recent snapshot; the durable file is loaded
   only when the in-process tier is empty and a durable path is configured. *)
C15_MemoryTierFirst ==
  [][\A c \in Calls :
       /\ (pc[c] = "idle" /\ pc'[c] # "idle") =>
            IF memoryCache # NullVal
              THEN pc'[c] = "resume" /\ cached'[c] = memoryCache
              ELSE IF opts'[c].persist
                THEN pc'[c] = "readFile"
                ELSE pc'[c] = "resume" /\ cached'[c] = NullVal
       /\ (pc[c] = "readFile" /\ pc'[c] # "readFile") =>
            /\ opts[c].persist
            /\ pc'[c] = "resume"
            /\ cached'[c] = IF disk.state = "json" THEN disk.val ELSE NullVal
       /\ pc'[c] = "readFile" => pc[c] \in {"idle", "readFile"}]_vars

\* a call with a durable path was served the in-process snapshot while the
\* durable file held a more recent one
C15_Witness ==
  \E c \in Calls :
    /\ pc[c] = "done" /\ opts[c].persist /\ provCalls[c] = 0
    /\ cached[c] = memoryCache /\ IsSnapshot(memoryCache)
    /\ disk.state = "json" /\ IsSnapshot(disk.val)
    /\ disk.val.at > memoryCache.at /\ disk.val.rates # memoryCache.rates
    /\ result[c] = memoryCache.rates

(* C16: convert(amount, A, A) returns amount exactly, for any currency A, and
   performs no table lookup: no cache read, no provider call and no cache write,
   whatever the cache state and the options. *)
C16_PivotIdentity ==
  [][cv_same' # cv_same =>
       /\ cv_same'.result = cv_same'.amount
       /\ cv_same'.amount \in Amounts /\ cv_same'.cur \in Currencies
       /\ UNCHANGED <<ratesVars, mgrVars, cv_args, cv_result, histVars, moreVars>>]_vars

\* a same-currency conversion of a non-pivot currency was made after a fetch
\* had filled both cache tiers
C16_Witness ==
  /\ cv_same # NoSame /\ cv_same.cur # Pivot /\ cv_same.result = cv_same.amount
  /\ memoryCache # NullVal /\ disk.state = "json"
  /\ \E c \in Calls : pc[c] = "done" /\ fetchOutcome[c] = "ok"

\* the conversions that have returned a number
C17_Returned == {c \in Calls : cv_result[c].kind = "num"}

(* C17 as stated: convert(amount, from, to) with from # to computes, on the table
   T returned by one getRates call, amount * T[to] when from is the pivot,
   amount * (1 / T[from]) when to is the pivot, and (amount / T[from]) * T[to]
   otherwise. *)
C17_ConvertFormulas ==
  \A c \in C17_Returned :
    LET a == cv_args[c]
        T == result[c]
    IN /\ T \in Tables /\ pc[c] = "done" /\ a.from # a.to
       /\ cv_result[c] =
            IF a.from = Pivot THEN NumMul(a.amount, RateOf(T, a.to))
            ELSE IF a.to = Pivot
              THEN NumMul(a.amount, NumDiv(NumOf(1), RateOf(T, a.from)))
              ELSE NumMul(NumDiv(a.amount, RateOf(T, a.from)), RateOf(T, a.to))

(* C17, amended: as stated, but between two non-pivot currencies the result is
   (amount * (1 / T[from])) * T[to]: the amount is multiplied by the rounded
   reciprocal of T[from], not divided by T[from]. *)
C17_ConvertFormulasAmended ==
  \A c \in C17_Returned :
    LET a == cv_args[c]
        T == result[c]
        inv == NumDiv(NumOf(1), RateOf(T, a.from))
    IN /\ T \in Tables /\ pc[c] = "done" /\ a.from # a.to
       /\ cv_result[c] =
            IF a.from = Pivot THEN NumMul(a.amount, RateOf(T, a.to))
            ELSE IF a.to = Pivot THEN NumMul(a.amount, inv)
            ELSE NumMul(NumMul(a.amount, inv), RateOf(T, a.to))

\* conversions between two non-pivot currencies, from the pivot and to the pivot
\* have returned
C17_Witness ==
  \E c, d \in C17_Returned :
    /\ cv_args[c].from # Pivot /\ cv_args[c].to # Pivot
    /\ (cv_args[d].from = Pivot \/ cv_args[d].to = Pivot)
    /\ result[c] \in Tables

\* |y - x| <= 2^(3 - MantissaBits) * |x|: y is x within 8 units of roundoff.
\* (1e-6 is more than 2^33 units of roundoff of a double.)
C18_Within(y, x) ==
  IF x.m = 0 \/ y.m = 0 THEN x.m = y.m
  ELSE IF Abs(y.e - x.e) > 3 THEN FALSE
  ELSE LET e == IF y.e < x.e THEN y.e ELSE x.e
           Y == y.m * Pow2(y.e - e)
           X == x.m * Pow2(x.e - e)
       IN Abs(Y - X) * Pow2(MantissaBits - 3) <= Abs(X)

\* conversion d takes the result of conversion c back: convert(convert(x, A, B), B, A)
\* for two non-pivot currencies A, B
C18_RoundTripPair(c, d) ==
  /\ c < d
  /\ cv_result[c].kind = "num" /\ cv_result[d] # NoNum
  /\ cv_args[c].from # Pivot /\ cv_args[c].to # Pivot
  /\ cv_args[d] = [amount |-> cv_result[c], from |-> cv_args[c].to,
                    to |-> cv_args[c].from]

(* C18 as stated: for all supported non-pivot pairs (A, B) and every amount x,
   convert(convert(x, A, B), B, A) equals x within 1e-6 relative error. *)
C18_RoundTrip ==
  \A c, d \in Calls :
    C18_RoundTripPair(c, d) =>
      /\ cv_result[d].kind = "num"
      /\ C18_Within(cv_result[d], cv_args[c].amount)

(* C18, amended: the round trip returns x within the tolerance when both
   conversions are computed on the same table, that is, when the getRates call
   of the second conversion returns the table the first one was computed on. *)
C18_RoundTripSameTable ==
  \A c, d \in Calls :
    (C18_RoundTripPair(c, d) /\ result[d] = result[c]) =>
      /\ cv_result[d].kind = "num"
      /\ C18_Within(cv_result[d], cv_args[c].amount)

\* a round trip on one table came back within the tolerance, though not exactly
C18_Witness ==
  \E c, d \in Calls :
    /\ C18_RoundTripPair(c, d) /\ result[d] = result[c]
    /\ cv_result[d].kind = "num"
    /\ cv_result[d] # cv_args[c].amount
    /\ C18_Within(cv_result[d], cv_args[c].amount)

\* C19: getHistoricalRates(date) on a cache hit (the historical cache file, as
\* read, has an entry for exactly that date) returns the cached table at once: the
\* step that finds the entry ends the call with that table, no provider was or will
\* be invoked, the cache file is not written, and the call does nothing afterwards.
C19_Hit(c) ==
  /\ h_call[c].pc = "read"
  /\ h_call[c].date \in DOMAIN getCachedRates(h_file)
C19_Steps ==
  \A c \in HistCalls :
    /\ (C19_Hit(c) /\ h_call'[c] # h_call[c]) =>
         /\ h_call'[c].pc = "done"
         /\ h_call'[c].result = h_file.val[h_call[c].date]
         /\ h_call'[c].calls = <<>>
         /\ h_call'[c].writes = <<>>
         /\ h_file' = h_file
    /\ h_call[c].pc = "done" => h_call'[c] = h_call[c]
C19_CacheHitReturnsAtOnce == [][C19_Steps]_vars
\* a call returned, without any provider, a table that an earlier call had fetched
\* and stored
C19_Witness ==
  \E c \in HistCalls :
    /\ h_call[c].pc = "done"
    /\ h_call[c].calls = <<>>
    /\ h_call[c].writes = <<>>
    /\ h_call[c].result.kind = "table"
    /\ h_call[c].result.by \in Providers

\* C20: historical prune-on-write: the write of a cache miss that fetched its table
\* replaces the file by the cache as re-read, with the fetched table stored under
\* its date and then every entry dated before the cutoff (90 days before the day
\* cacheRates ran) deleted, whichever date triggered the write; hence right after
\* a write the file holds no date before that cutoff. (A write that lands on the
\* text of an overlapping write leaves a file without entries.)
C20_Writes(c) ==
  h_call[c].pc = "write" /\ h_call'[c].writes = Append(h_call[c].writes, "data")
C20_Steps ==
  \A c \in HistCalls :
    /\ (h_call[c].pc = "reread" /\ h_call'[c] # h_call[c]) =>
         h_call'[c].cutoff = h_today - RetentionDays
    /\ C20_Writes(c) =>
         /\ LET call == h_call[c]
                stored == [k \in DOMAIN call.cached \cup {call.date} |->
                             IF k = call.date THEN call.rates ELSE call.cached[k]]
            IN IF h_file'.state = "json"
                 THEN /\ DOMAIN h_file'.val = {k \in DOMAIN stored : k >= call.cutoff}
                      /\ \A k \in DOMAIN h_file'.val : h_file'.val[k] = stored[k]
                      /\ call.rates = [kind |-> "table",
                                       by |-> call.calls[Len(call.calls)],
                                       for |-> call.date]
                 ELSE h_file.state = "json" /\ h_file' = HOverwritten
         /\ \A k \in DOMAIN getCachedRates(h_file') : k >= h_call[c].cutoff
C20_PruneOnWrite == [][C20_Steps]_vars
\* a write triggered by one date has just removed the older-than-90-days entry of
\* another date and kept the table it fetched
C20_Witness ==
  \E c \in HistCalls :
    /\ h_call[c].pc = "done"
    /\ h_call[c].writes = <<"open", "data">>
    /\ h_file = [state |-> "json", val |-> h_call[c].pending]
    /\ h_call[c].date \in DOMAIN h_file.val
    /\ \E k \in DOMAIN h_call[c].cached :
         /\ k # h_call[c].date
         /\ k < h_call[c].cutoff
         /\ k \notin DOMAIN h_file.val

\* C21: getRateHistory(currency, from, to) requests every calendar day of the
\* inclusive range [from, to] exactly once, one day at a time in ascending order; a
\* day whose fetch fails is skipped without aborting the scan; the result is
\* strictly ascending by date and holds exactly the days whose fetch succeeded.
C21_RangeOf(scan) ==
  [i \in 1..(IF scan.to >= scan.from THEN scan.to - scan.from + 1 ELSE 0) |->
     scan.from + i - 1]
C21_Ascending(seq) ==
  \A i \in 1..Len(seq) : \A j \in 1..Len(seq) : i < j => seq[i].date < seq[j].date
C21_ScanCoversRange ==
  s_scan.pc = "done" =>
    /\ s_scan.asked = C21_RangeOf(s_scan)
    /\ C21_Ascending(s_scan.results)
    /\ {s_scan.results[i].date : i \in 1..Len(s_scan.results)}
         = {d \in RangeDays : \E i \in 1..Len(s_scan.asked) : s_scan.asked[i] = d}
             \ {s_scan.skipped[i] : i \in 1..Len(s_scan.skipped)}

\* C22: fetchHistoricalRates(date) calls only providers that have the historical
\* capability, in the order [primary, ...fallbacks], each entry at most once (no
\* retry, no backoff); it returns the table of the first provider that resolves
\* and calls none after it, and it fails only when every capable provider has been
\* called and has rejected.
C22_Capable ==
  SelectSeq(<<m_primary>> \o m_fallbacks, LAMBDA p : p \in m_capable)
C22_State ==
  \A c \in HistCalls :
    LET call == h_call[c]
        n == Len(call.calls)
    IN /\ n <= Len(C22_Capable)
       /\ \A i \in 1..n : call.calls[i] = C22_Capable[i]
       /\ call.pc = "fetching" => n >= 1 /\ call.idx = n
       /\ call.pc = "failed" => n = Len(C22_Capable) /\ call.result.kind = "error"
       /\ (call.rates.kind = "table" /\ call.rates.by \in Providers) =>
            n >= 1 /\ call.rates = [kind |-> "table", by |-> call.calls[n],
                                    for |-> call.date]
C22_Steps ==
  \A c \in HistCalls :
    /\ h_call[c].pc \in {"reread", "open", "write", "done", "failed"} =>
         h_call'[c].calls = h_call[c].calls
    /\ h_call'[c].calls # h_call[c].calls =>
         /\ Len(h_call'[c].calls) = Len(h_call[c].calls) + 1
         /\ h_call[c].pc \in {"read", "fetching"}
         /\ h_call'[c].pc = "fetching"
C22_HistoricalFailover == []C22_State /\ [][C22_Steps]_vars
\* the first capable provider rejected, the second resolved and its table was
\* returned
C22_Witness ==
  \E c \in HistCalls :
    /\ h_call[c].pc = "done"
    /\ Len(h_call[c].calls) = 2
    /\ h_call[c].result = [kind |-> "table", by |-> h_call[c].calls[2],
                           for |-> h_call[c].date]

\* C23: after any addFallbackProvider call the fallback list is sorted ascending
\* by priority (lower number first, for every numeric priority including 0 and
\* values above 999), every provider without a priority comes after all those that
\* have one, and the primary provider is untouched, so it stays first in the
\* traversal [primary, ...fallbacks].
C23_Before(p, q) ==
  IF m_priority[p] = NoPriority THEN m_priority[q] = NoPriority
  ELSE IF m_priority[q] = NoPriority THEN TRUE
  ELSE m_priority[p] <= m_priority[q]
C23_Sorted(seq) ==
  \A i \in 1..Len(seq) : \A j \in 1..Len(seq) : i < j => C23_Before(seq[i], seq[j])
C23_Steps ==
  m_fallbacks' # m_fallbacks => C23_Sorted(m_fallbacks') /\ m_primary' = m_primary
C23_FallbacksSortedByPriority == [][C23_Steps]_vars

\* C24: each fetchRates attempt on provider p is bounded by p's own timeout when p
\* declares one (5000 ms for fixer.io and currencyapi.com), and by the default of
\* 10 s when p declares none: the timer armed for the attempt runs that long.
C24_Bound(p) ==
  IF ProviderTimeout(p) = NoTimeout THEN DefaultTimeout ELSE ProviderTimeout(p)
C24_AttemptBoundedByOwnTimeout ==
  \A n \in 1..Len(m_log) :
    m_log[n].ev = "attempt" => m_log[n].ms = C24_Bound(m_providers[m_log[n].i])

\* C25: overlapping getRates calls are not coordinated: when two calls overlap and
\* neither finds a fresh cache, each performs its own fetch and returns the table
\* of its own fetch, and once both have completed (their writes having succeeded,
\* no other process writing) the durable file holds the complete snapshot of one
\* of them, the one that wrote last, never a mixture of the two.
C25_Overlap(c, d) ==
  /\ c # d
  /\ pc[c] = "done" /\ pc[d] = "done"
  /\ c \notin doneBefore[d] /\ d \notin doneBefore[c]
  /\ fetchOutcome[c] = "ok" /\ fetchOutcome[d] = "ok"
C25_BothWrote(c, d) ==
  /\ writes[c] = <<"mem", "open", "data">>
  /\ writes[d] = <<"mem", "open", "data">>
  /\ otherWrites = 0
C25_LastWriterWins ==
  \A c \in Calls : \A d \in Calls :
    C25_Overlap(c, d) =>
      /\ provCalls[c] = 1 /\ provCalls[d] = 1
      /\ result[c] = TableOf(opts[c].provider)
      /\ result[d] = TableOf(opts[d].provider)
      /\ C25_BothWrote(c, d) => disk \in {Stringify(snap[c]), Stringify(snap[d])}

\* C26: getVolatility over a history of exactly two data points with daily return
\* r returns |r| * sqrt(365), which is not zero when r is not zero; over a history
\* with a constant rate it returns 0.
C26_History == HistoryOf(s_scan.results, VolCurrency)
C26_Constant(history) ==
  \A i \in 1..Len(history) : history[i].rate = history[1].rate
C26_AbsNum(x) == [kind |-> "num", m |-> IF x.m < 0 THEN 0 - x.m ELSE x.m, e |-> x.e]
C26_TwoPointsAndConstant ==
  v_call.pc = "done" =>
    /\ Len(C26_History) = 2 =>
         LET r == DailyReturns(C26_History)[1]
         IN /\ v_call.result
                 = NumMul(C26_AbsNum(r), NumSqrt(NumOf(DaysPerYear)))
            /\ r # NumZero => v_call.result # NumZero
    /\ C26_Constant(C26_History) => v_call.result = NumZero

\* C27: getRate and convert called with a currency code that is no key of the rate
\* table end in an explicit configuration error instead of returning a value, and
\* such configuration errors are the only failures the two operations surface.
C27_ConfigError == [kind |-> "ConfigError", m |-> 0, e |-> 0]
C27_Settled(x) == x # NoNum
C27_UnsupportedCodeIsAnError ==
  /\ \A c \in Calls :
       /\ (C27_Settled(g_result[c]) /\ g_target[c] \notin Currencies) =>
            g_result[c] = C27_ConfigError
       /\ (C27_Settled(cv_result[c])
             /\ (cv_args[c].from \notin Currencies \/ cv_args[c].to \notin Currencies)) =>
            cv_result[c] = C27_ConfigError
       /\ g_result[c].kind \in {"none", "num", "ConfigError"}
       /\ cv_result[c].kind \in {"none", "num", "ConfigError"}
  /\ (cv_same # NoSame /\ cv_same.cur \notin Currencies) =>
       cv_same.result = C27_ConfigError

\* C28: every built-in provider rejects a response that lacks the SOS rate:
\* fetchRatesSOS fails with an error and returns no table; and a table it returns
\* (the SOS rate being present) has the SOS entry exactly 1.
C28_PivotChecked ==
  r_result # NotSettled =>
    /\ "SOS" \notin DOMAIN r_response.rates => r_result.kind = "error"
    /\ r_result.kind = "error" => r_result.rates = NoRates
    /\ r_result.kind = "table" =>
         /\ "SOS" \in DOMAIN r_response.rates
         /\ DOMAIN r_result.rates = DOMAIN r_response.rates
         /\ r_result.rates["SOS"] = NumOf(1)
\* a provider returned a table whose SOS entry is 1 and whose USD entry is not
C28_Witness ==
  /\ r_result.kind = "table"
  /\ r_result.rates["SOS"] = NumOf(1)
  /\ "USD" \in DOMAIN r_result.rates
  /\ r_result.rates["USD"] # NumOf(1)

\* a step of call c that returns without a successful fetch of its own: a fresh
\* cached table, the offline fallback, or the fallback of the catch block
C29_ReturnsCached(c) ==
  pc[c] # "done" /\ pc'[c] = "done" /\ fetchOutcome'[c] # "ok"
C29_Steps ==
  \* the in-process tier is replaced only in the step in which a call's own fetch
  \* resolves, and by the snapshot of the table fetched
  /\ memoryCache' # memoryCache =>
       \E c \in Calls :
         /\ pc[c] = "fetching" /\ fetchOutcome'[c] = "ok"
         /\ memoryCache' = Obj(now, TableOf(opts[c].provider))
  \* this process touches the durable file only in a call whose fetch succeeded,
  \* and a snapshot it leaves there is that call's
  /\ (disk' # disk /\ otherWrites' = otherWrites) =>
       \E c \in Calls :
         /\ fetchOutcome[c] = "ok" /\ writes'[c] # writes[c]
         /\ snap[c].rates = TableOf(opts[c].provider)
         /\ disk'.state = "json" => disk' = Stringify(snap[c])
  \* returning a cached table or the seed writes neither tier
  /\ \A c \in Calls :
       C29_ReturnsCached(c) =>
         /\ memoryCache' = memoryCache /\ disk' = disk
         /\ writes'[c] = <<>>
\* C29: neither cache tier is written with anything but the table returned by a
\* successful provider call of that same getRates call; seed data and cached
\* tables returned as fallbacks are never written back, so returning one leaves
\* capturedAt as it was.
C29_OnlyFetchedTablesWritten == [][C29_Steps]_vars
\* a call whose fetch failed returned the table of a stale snapshot, both tiers
\* still hold what they held, and the next call found the same snapshot and went
\* to its provider again
C29_Witness ==
  \E c, d \in Calls :
    /\ pc[c] = "done" /\ fetchOutcome[c] = "error"
    /\ IsSnapshot(cached[c]) /\ result[c] = cached[c].rates
    /\ memoryCache = NullVal /\ tryReadJSON(disk) = cached[c]
    /\ c \in doneBefore[d] /\ provCalls[d] = 1
    /\ cached[d] = cached[c]

C30_Steps ==
  /\ now' >= now
  /\ memoryCache' # memoryCache =>
       /\ IsSnapshot(memoryCache')
       /\ memoryCache'.at = now
       /\ IsSnapshot(memoryCache) => memoryCache'.at >= memoryCache.at
\* C30: across any interleaving of getRates calls, the clock not running
\* backwards, the capturedAt of the in-process snapshot never decreases: every
\* replacement installs a snapshot whose capturedAt is at least that of the
\* snapshot it replaces.
C30_CapturedAtMonotone == [][C30_Steps]_vars
\* two overlapping calls both fetched; the one that resolved later replaced the
\* other's snapshot with one captured later
C30_Witness ==
  \E c, d \in Calls :
    /\ fetchOutcome[c] = "ok" /\ fetchOutcome[d] = "ok"
    /\ d \notin doneBefore[c] /\ c \notin doneBefore[d]
    /\ snap[c].at < snap[d].at
    /\ memoryCache = snap[d]

\* every call has completed, all on the durable path, no other process wrote it,
\* and each durable write that was started succeeded
C31_Quiescent ==
  /\ \A c \in Calls : pc[c] = "done" /\ opts[c].persist
  /\ \A c \in Calls : writes[c] \in {<<>>, <<"mem", "open", "data">>}
  /\ \E c \in Calls : writes[c] # <<>>
  /\ otherWrites = 0
\* C31: after every call of a set of (possibly overlapping) getRates calls on the
\* same durable path has completed and all durable writes succeeded, the durable
\* file holds the same snapshot as the in-process tier.
C31_TiersAgreeAtQuiescence ==
  C31_Quiescent => disk = Stringify(memoryCache)

\* the attempts made so far, and those made on the i-th provider
C32_Attempts == {j \in C_Pos : m_log[j].ev = "attempt"}
C32_AttemptsOn(i) == {j \in C32_Attempts : m_log[j].i = i}
C32_Bounded ==
  /\ Cardinality(C32_Attempts) <= (1 + Len(m_fallbacks)) * m_maxRetries
  /\ \A i \in 1..Len(m_providers) : Cardinality(C32_AttemptsOn(i)) <= m_maxRetries
  \* a backoff delay follows failed attempt k only when k < maxRetries
  /\ \A j \in C_Pos : m_log[j].ev = "delay" => m_log[j].k < m_maxRetries
  /\ m_pc = "backoff" => m_attempt < m_maxRetries
  \* it ends with a returned table or with the all-providers-failed error
  /\ m_pc = "success" =>
       \E i \in 1..Len(m_providers) : m_outcome = Returned(TableOf(m_providers[i]))
  /\ m_pc = "failed" => m_outcome = AllProvidersFailed(m_lastError)
  /\ m_pc \in {"idle", "attempting", "backoff", "success", "failed"}
C32_Ended == m_pc \in {"success", "failed"}
\* C32: fetchRates always terminates, given that backoff and timeout timers fire:
\* it makes at most |providers| * maxRetries attempts in total, at most maxRetries
\* on any single provider, no backoff delay follows the last attempt on a
\* provider, and it ends either with a returned table or with the
\* all-providers-failed error.
C32_Terminates == []C32_Bounded /\ [](m_pc # "idle" => <>C32_Ended)
\* two providers were given three attempts each, some of which timed out, and
\* fetchRates ended with the all-providers-failed error
C32_Witness ==
  /\ m_pc = "failed" /\ Len(m_providers) = 2 /\ m_maxRetries = 3
  /\ Cardinality(C32_Attempts) = 6
  /\ Cardinality({j \in C_Pos : m_log[j].ev = "fail" /\ m_log[j].err.kind = "timeout"}) >= 3
  /\ m_outcome.status = "error"

\* call c fetched its table on a cache miss, its cache write succeeded, and the
\* file is as that write left it
C33_Stored(c) ==
  /\ h_call[c].pc = "done"
  /\ h_call[c].calls # <<>>
  /\ h_call[c].writes = <<"open", "data">>
  /\ h_file = HFileOf("json", h_call[c].pending)
\* call e, for the same date, reads the cache next
C33_Follows(c, e) ==
  /\ e # c
  /\ h_call[e].pc = "read" /\ h_call[e].date = h_call[c].date
  /\ h_call'[e] # h_call[e]
\* call e is a cache hit that returns the table c returned and invokes no provider
C33_HitsLike(c, e) ==
  /\ h_call'[e].pc = "done"
  /\ h_call'[e].result = h_call[c].result
  /\ h_call'[e].calls = <<>>
  /\ h_file' = h_file
C33_AnyDateSteps ==
  \A c \in HistCalls : \A e \in HistCalls :
    (C33_Stored(c) /\ C33_Follows(c, e)) => C33_HitsLike(c, e)
\* C33 as stated: for every date d, including a date older than the 90-day
\* retention window, once getHistoricalRates(d) has succeeded on a cache miss and
\* its cache write succeeded, an immediately following getHistoricalRates(d) is a
\* cache hit that returns the same table and invokes no provider.
C33_AnyDateIsHitAfterMiss == [][C33_AnyDateSteps]_vars
C33_Steps ==
  \A c \in HistCalls : \A e \in HistCalls :
    /\ (C33_Stored(c) /\ C33_Follows(c, e) /\ h_call[c].date >= h_call[c].cutoff) =>
         C33_HitsLike(c, e)
    /\ (C33_Stored(c) /\ C33_Follows(c, e) /\ h_call[c].date < h_call[c].cutoff) =>
         /\ h_call[c].date \notin DOMAIN h_file.val
         /\ h_call'[e].pc # "done"
\* C33, amended: for every date d not earlier than the cutoff of the write (90
\* days before the day cacheRates ran), once getHistoricalRates(d) has succeeded on
\* a cache miss and its cache write succeeded, an immediately following
\* getHistoricalRates(d) is a cache hit that returns the same table and invokes no
\* provider; for an earlier date the write has pruned the entry it stored and the
\* following call is a miss again.
C33_RetainedDateIsHitAfterMiss == [][C33_Steps]_vars
\* a table fetched for the cutoff date itself was stored, and the call that
\* followed returned it from the cache
C33_Witness ==
  \E c \in HistCalls : \E e \in HistCalls :
    /\ e # c
    /\ h_call[c].pc = "done" /\ h_call[c].calls # <<>>
    /\ h_call[c].writes = <<"open", "data">>
    /\ h_call[c].date = h_call[c].cutoff
    /\ h_call[e].pc = "done" /\ h_call[e].date = h_call[c].date
    /\ h_call[e].calls = <<>> /\ h_call[e].result = h_call[c].result

\* the step of call c in which the last historical-capable provider fails, or
\* in which the call finds that no provider is capable
C34_LastFails(c) ==
  \/ /\ h_call[c].pc = "fetching" /\ h_call[c].idx = Len(HistProviders)
     /\ h_call'[c] # h_call[c] /\ h_call'[c].rates = NoTable
  \/ /\ h_call[c].pc = "read" /\ HistProviders = <<>>
     /\ h_call[c].date \notin DOMAIN getCachedRates(h_file)
     /\ h_call'[c] # h_call[c]
C34_Steps ==
  \A c \in HistCalls :
    \* the failure is raised: the call ends with the error, quoting the last
    \* provider's, after every capable provider was invoked once
    /\ C34_LastFails(c) =>
         /\ h_call'[c].pc = "failed"
         /\ h_call'[c].result.kind = "error"
         /\ h_call'[c].result.for = h_call[c].date
         /\ h_call'[c].result.by =
              IF HistProviders = <<>> THEN "none" ELSE HistProviders[Len(HistProviders)]
         /\ h_call'[c].calls = HistProviders
         /\ h_call'[c].writes = <<>>
         /\ h_call'[c].pending = EmptyCache
         /\ h_file' = h_file
    \* and the call does nothing more
    /\ h_call[c].pc = "failed" => h_call'[c] = h_call[c]
    \* only a call holding a fetched table stores or prunes
    /\ (h_call[c].pc \in {"reread", "open", "write"} /\ h_call'[c] # h_call[c]) =>
         h_call[c].rates.kind = "table"
\* C34: when every historical-capable provider fails for date d,
\* getHistoricalRates(d) raises that failure to its caller and leaves the
\* persisted historical cache unchanged: no entry is stored for d and no pruning
\* takes place.
C34_FailureLeavesCache == [][C34_Steps]_vars
\* two capable providers both failed, and the file still has its entry older
\* than 90 days and none for the date asked
C34_Witness ==
  \E c \in HistCalls :
    /\ h_call[c].pc = "failed" /\ Len(h_call[c].calls) = 2
    /\ h_call[c].result.kind = "error"
    /\ h_file.state = "json"
    /\ (FirstDay - RetentionDays - 1) \in DOMAIN h_file.val
    /\ h_call[c].date \notin DOMAIN h_file.val
    /\ \A e \in HistCalls : h_call[e].writes = <<>>

\* no provider of the list declares fetchHistoricalRates
C35_NoneCapable ==
  m_primary \notin m_capable /\ \A i \in 1..Len(m_fallbacks) : m_fallbacks[i] \notin m_capable
C35_Cached == DOMAIN getCachedRates(h_file)
\* the dates of seq that are in the cache, in the order of seq
C35_CachedOf(seq) == SelectSeq(seq, LAMBDA d : d \in C35_Cached)
\* C35: with a provider list in which no provider declares historical capability
\* (the default: primary exchangerate.host, no fallbacks), fetchHistoricalRates
\* fails for every date without invoking any provider, so getHistoricalRates
\* succeeds only for dates already in the cache and getRateHistory returns only
\* those dates.
C35_NoCapableProvider ==
  C35_NoneCapable =>
    /\ \A c \in HistCalls :
         /\ h_call[c].calls = <<>> /\ h_call[c].writes = <<>>
         /\ h_call[c].pc \in {"idle", "read", "done", "failed"}
         /\ h_call[c].pc = "done" =>
              /\ h_call[c].date \in C35_Cached
              /\ h_call[c].result = h_file.val[h_call[c].date]
         /\ h_call[c].pc = "failed" =>
              /\ h_call[c].date \notin C35_Cached
              /\ h_call[c].result = HError("none", h_call[c].date)
    /\ \A i \in 1..Len(s_scan.results) :
         /\ s_scan.results[i].date \in C35_Cached
         /\ s_scan.results[i].rates = h_file.val[s_scan.results[i].date]
    /\ \A i \in 1..Len(s_scan.skipped) : s_scan.skipped[i] \notin C35_Cached
    /\ s_scan.pc = "done" =>
         [i \in 1..Len(s_scan.results) |-> s_scan.results[i].date]
           = C35_CachedOf(s_scan.asked)
\* under the default configuration a scan over three days returned the one day
\* that was in the cache and skipped the others
C35_Witness ==
  /\ m_primary = "P1" /\ m_fallbacks = <<>> /\ "P1" \notin m_capable
  /\ s_scan.pc = "done"
  /\ Len(s_scan.asked) = 3
  /\ Len(s_scan.results) = 1 /\ s_scan.results[1].rates.by = "file"
  /\ Len(s_scan.skipped) = 2

\* a connect() that the user did not call: a reconnect timer ran it
C36_Reconnects == w_connects' > w_connects /\ w_calls' = w_calls
\* C36: after RateStreamClient.disconnect() has been called (and until the user
\* calls connect() again), the client makes no further connection attempt:
\* neither the close event caused by the disconnect nor a reconnect timer already
\* pending starts a new connect.
C36_NoConnectAfterDisconnect == [][w_disc => ~C36_Reconnects]_vars

\* the delay of the k-th consecutive reconnect attempt, ms
C37_Delay(k) == 1000 * (2 ^ (k - 1))
C37_Steps ==
  \* a close (or a constructor that throws) schedules attempt k = count + 1 after
  \* 1000 * 2^(k-1) ms while the count is below 5, and otherwise emits
  \* 'max-reconnect-attempts' and schedules nothing
  /\ \A s \in Sockets :
       (w_sock[s] # "closed" /\ w_sock'[s] = "closed") =>
         IF w_attempts < 5
           THEN /\ w_attempts' = w_attempts + 1
                /\ w_timers' = Append(w_timers, C37_Delay(w_attempts'))
                /\ w_maxed' = w_maxed
           ELSE /\ w_maxed' = w_maxed + 1
                /\ w_timers' = w_timers /\ w_attempts' = w_attempts
  /\ w_maxed' # w_maxed => (w_attempts = 5 /\ w_maxed' = w_maxed + 1)
  \* a successful open resets the count
  /\ \A s \in Sockets :
       (w_sock[s] # "open" /\ w_sock'[s] = "open") => w_attempts' = 0
  /\ w_attempts' \in {w_attempts, w_attempts + 1, 0}
C37_State ==
  /\ w_attempts \in 0..5
  /\ \A i \in 1..Len(w_timers) : \E k \in 1..5 : w_timers[i] = C37_Delay(k)
  \* at most one reconnect timer is pending
  /\ Len(w_timers) <= 1
\* C37: RateStreamClient reconnection: after a connection closes, the k-th
\* consecutive reconnect attempt since the last successful open is scheduled after
\* 1000 * 2^(k-1) ms; at most 5 consecutive attempts are made, after which
\* 'max-reconnect-attempts' is emitted and no further connect is scheduled; a
\* successful open resets the attempt count to 0; and at most one reconnect timer
\* is pending at any time.
C37_Reconnection == []C37_State /\ [][C37_Steps]_vars

\* the built-in default values: DEFAULT_CONFIG as written
C38_BuiltIn ==
  [language |-> "en", locale |-> "en-US",
   defaultCurrencies |-> <<"USD", "EUR", "GBP", "KES", "ETB">>,
   notifications |-> [email |-> "undefined"],
   providers |-> [primary |-> "exchangerate-host",
                  fallbacks |-> <<"fixer", "currencyapi">>]]
\* instance i has just been reset
C38_Reset(i) == k_config'[i] = SpreadDefault /\ k_config'[i] # k_config[i]
C38_Steps ==
  \A i \in ConfigManagers :
    C38_Reset(i) =>
      [language |-> k_config'[i].language, locale |-> k_config'[i].locale,
       defaultCurrencies |-> k_default'.defaultCurrencies,
       notifications |-> k_default'.notifications,
       providers |-> k_default'.providers] = C38_BuiltIn
\* C38: ConfigManager.resetToDefaults restores every configuration field (default
\* currencies, language, locale, notifications, providers) to the built-in default
\* values, whatever sequence of setters was called before, on this or on any other
\* ConfigManager instance.
C38_ResetRestoresDefaults == [][C38_Steps]_vars

\* every call has completed, and each write started has succeeded
C39_Completed ==
  \A c \in AlertCalls :
    /\ a_call[c].pc \in {"done", "failed"}
    /\ a_call[c].pc = "done" => a_call[c].writes = <<"open", "data">>
\* the persisted list reflects call c
C39_Reflects(c) ==
  LET alerts == getAlerts(a_file)
      id == a_call[c].id
  IN IF a_call[c].op = "create" THEN \E j \in 1..Len(alerts) : alerts[j].id = id
     ELSE IF a_call[c].op = "delete" THEN \A j \in 1..Len(alerts) : alerts[j].id # id
     ELSE \A j \in 1..Len(alerts) : alerts[j].id = id => ~alerts[j].active
\* C39: AlertManager loses no update: after any set of overlapping createAlert,
\* updateAlert and deleteAlert calls has completed, the persisted alert list
\* reflects all of them; in particular after two overlapping createAlert calls the
\* list contains both new alerts.
C39_NoLostUpdate ==
  C39_Completed =>
    /\ a_file.state \in {"json", "missing"}
    /\ \A c \in AlertCalls : a_call[c].pc = "done" => C39_Reflects(c)

=============================================================================
